---- MODULE Spec2Model ----
(***************************************************************************)
(* A model of the domain generator: the shared validator                   *)
(* (cleanup.process_domain), the brute-force enumerator and its counter    *)
(* (BruteForceGenerator), and the Markov generator (MarkovGenerator).      *)
(* Strings are sequences of one-character strings.                         *)
(***************************************************************************)
EXTENDS Integers, Sequences, FiniteSets, TLC

VARIABLES
    v_pc,        \* the validator run: "fresh", "processed", "reprocessed"
    v_raw,       \* cleanup.process_domain: the raw candidate
    v_policy,    \* its keyword arguments
    v_result,    \* what process_domain(raw) returned, or NotRun
    v_again,     \* what process_domain returned on its own accepted output
    brute,       \* the BruteForceGenerator object's fields
    estimated,   \* generate_to_file: the value of estimate_count()
    g_pc,        \* position of the generate() generator
    g_length,    \* generate(): the loop variable length
    g_combo,     \* generate(): the last tuple itertools.product handed out
    g_count,     \* how many strings generate() has yielded
    g_last,      \* the last string generate() yielded
    g_prev,      \* the string generate() yielded before g_last
    markov,      \* the MarkovGenerator object's fields, the trained model included
    one_returns, \* what _generate_one() can return on this model, over every random outcome
    m_pc,        \* position of MarkovGenerator.generate(): "loop" or "done"
    generated,   \* generate(): the set generated
    attempts,    \* generate(): the counter attempts
    yielded,     \* the strings generate() has yielded so far, in order
    c_pc,        \* position of a constructor call: "call", "train", "built" or "raised"
    c_args,      \* the arguments of the constructor call
    c_raised,    \* the exception the constructor call raised, or None
    c_object,    \* the object the constructor call returned, or None
    c_model,     \* MarkovGenerator._train: the model storage while the corpus is read
    c_line,      \* MarkovGenerator._train: the number of corpus lines read
    w_pc,        \* position of WordTransformGenerator.generate(): "loop" or "done"
    w_self,      \* the WordTransformGenerator object: the lines of its input file, its tld
    w_line,      \* generate(): the number of lines read from the file
    w_yielded,   \* the strings generate() has yielded so far, in order
    f_pc,        \* position of a generate_to_file / write_batches call
    f_call,      \* the call: its function and arguments
    f_count,     \* write_batches: the counter count
    f_batch,     \* write_batches: the list batch
    f_peak,      \* the largest length batch has had
    f_file,      \* the lines of the output file, None while it does not exist
    f_result,    \* what the call returned or raised
    o_pc,        \* position of a _generate_one call: "loop" or "returned"
    o_locals,    \* _generate_one: state, result, attempts, and whether the loop hit a break
    o_returned,  \* what _generate_one returned
    k_pc,        \* position of run_cleanup
    k_args,      \* run_cleanup: the parsed arguments
    k_files,     \* the files by role: their lines, or None for a file that does not exist
    k_log,       \* what run_cleanup has done to the files and reported, in order
    k_exit       \* the exit status run_cleanup returned, or None

vars == <<v_pc, v_raw, v_policy, v_result, v_again,
          brute, estimated, g_pc, g_length, g_combo, g_count, g_last, g_prev,
          markov, one_returns, m_pc, generated, attempts, yielded,
          c_pc, c_args, c_raised, c_object, c_model, c_line,
          w_pc, w_self, w_line, w_yielded,
          f_pc, f_call, f_count, f_batch, f_peak, f_file, f_result,
          o_pc, o_locals, o_returned,
          k_pc, k_args, k_files, k_log, k_exit>>

validatorVars == <<v_pc, v_raw, v_policy, v_result, v_again>>
bruteVars == <<brute, estimated, g_pc, g_length, g_combo, g_count, g_last, g_prev>>
markovVars == <<markov, one_returns, m_pc, generated, attempts, yielded>>
ctorVars == <<c_pc, c_args, c_raised, c_object, c_model, c_line>>
wordVars == <<w_pc, w_self, w_line, w_yielded>>
writeVars == <<f_pc, f_call, f_count, f_batch, f_peak, f_file, f_result>>
oneVars == <<o_pc, o_locals, o_returned>>
cleanupVars == <<k_pc, k_args, k_files, k_log, k_exit>>

----------------------------------------------------------------------------
(* Bounds of the exploration.                                              *)

\* the largest max_len a BruteForceGenerator over the ten digits is built with
MaxLen == 3

\* the largest max_len a BruteForceGenerator over letters (26) or alphanumeric (36)
\* is built with: every further character multiplies their product by 27 or 37
MaxLenWide == 2

\* the largest number of subdomain labels put in front of a candidate's name
MaxSub == 2

\* the largest count a MarkovGenerator is built with
MaxCount == 2

----------------------------------------------------------------------------
(* Python values.                                                          *)

\* Optional[...]: None, or a value
None == [isNone |-> TRUE, val |-> <<>>]
Some(v) == [isNone |-> FALSE, val |-> v]

Max(a, b) == IF a >= b THEN a ELSE b

RECURSIVE Pow(_, _)
\* n ** k
Pow(n, k) == IF k = 0 THEN 1 ELSE n * Pow(n, k - 1)

\* s.startswith(p)
StartsWith(s, p) == Len(s) >= Len(p) /\ SubSeq(s, 1, Len(p)) = p

\* s.endswith(p)
EndsWith(s, p) == Len(s) >= Len(p) /\ SubSeq(s, Len(s) - Len(p) + 1, Len(s)) = p

\* p in s, for strings
Contains(s, p) == \E i \in 1..(Len(s) - Len(p) + 1) : SubSeq(s, i, i + Len(p) - 1) = p

\* the position of the first occurrence of character c in sequence s, 0 if none
IndexOf(s, c) == IF \E i \in 1..Len(s) : s[i] = c
                 THEN CHOOSE i \in 1..Len(s) : s[i] = c /\ \A j \in 1..(i - 1) : s[j] # c
                 ELSE 0


----------------------------------------------------------------------------
(* Characters and Python's str methods, as cleanup.py uses them.           *)

AsciiLower == {"a", "b", "c", "d", "e", "f", "g", "h", "i", "j", "k", "l", "m", "n", "o", "p",
               "q", "r", "s", "t", "u", "v", "w", "x", "y", "z"}
AsciiUpper == {"A", "B", "C", "H", "L", "P", "T", "W"}
AsciiDigit == {"0", "1", "2", "8"}
\* non-ASCII characters, by name: U+0105 and U+0104 (a and A with ogonek),
\* U+0130 (capital I with dot above) and U+0307 (combining dot above)
NonAsciiLetter == {"a_ogonek", "A_ogonek", "I_dot"}
CombiningMark == {"dot_above"}
Whitespace == {" "}

\* the characters \w matches under re.UNICODE: alphanumerics and the underscore
WordChars == AsciiLower \cup AsciiUpper \cup AsciiDigit \cup NonAsciiLetter \cup {"_"}

\* str.lower() of one character; U+0130 lowers to two code points, i and U+0307
LowerChar(c) ==
    CASE c = "A" -> <<"a">> [] c = "B" -> <<"b">> [] c = "C" -> <<"c">>
      [] c = "H" -> <<"h">> [] c = "L" -> <<"l">> [] c = "P" -> <<"p">>
      [] c = "T" -> <<"t">> [] c = "W" -> <<"w">>
      [] c = "A_ogonek" -> <<"a_ogonek">>
      [] c = "I_dot" -> <<"i", "dot_above">>
      [] OTHER -> <<c>>

RECURSIVE Lower(_)
\* s.lower()
Lower(s) == IF s = <<>> THEN <<>> ELSE LowerChar(Head(s)) \o Lower(Tail(s))

\* s.strip(): leading and trailing whitespace removed
Strip(s) ==
    LET keep == {i \in 1..Len(s) : s[i] \notin Whitespace}
    IN  IF keep = {} THEN <<>>
        ELSE SubSeq(s, CHOOSE i \in keep : \A j \in keep : i <= j,
                       CHOOSE i \in keep : \A j \in keep : i >= j)

\* s.rstrip("."): trailing dots removed
RStripDots(s) ==
    LET keep == {i \in 1..Len(s) : s[i] # "."}
    IN  IF keep = {} THEN <<>>
        ELSE SubSeq(s, 1, CHOOSE i \in keep : \A j \in keep : i >= j)

RECURSIVE Split(_)
\* s.split(".")
Split(s) ==
    LET i == IndexOf(s, ".")
    IN  IF i = 0 THEN <<s>>
        ELSE <<IF i = 1 THEN <<>> ELSE SubSeq(s, 1, i - 1)>>
             \o Split(IF i = Len(s) THEN <<>> ELSE SubSeq(s, i + 1, Len(s)))

RECURSIVE Join(_)
\* ".".join(labels)
Join(labels) ==
    IF labels = <<>> THEN <<>>
    ELSE IF Len(labels) = 1 THEN labels[1]
    ELSE labels[1] \o <<".">> \o Join(Tail(labels))

\* re.match(r"^[a-zA-Z]+://", s): the number of leading letters when it matches, else 0
SchemeLen(s) ==
    LET ks == {k \in 1..(Len(s) - 3) :
                  /\ \A i \in 1..k : s[i] \in AsciiLower \cup AsciiUpper
                  /\ SubSeq(s, k + 1, k + 3) = <<":", "/", "/">>}
    IN  IF ks = {} THEN 0 ELSE CHOOSE k \in ks : TRUE

\* urlparse(s).netloc for an s that matched the scheme pattern: what follows
\* "scheme://" up to the first of "/", "?" and "#"
UrlNetloc(s) ==
    LET start == SchemeLen(s) + 4
        stops == {i \in start..Len(s) : s[i] \in {"/", "?", "#"}}
        delim == IF stops = {} THEN Len(s) + 1 ELSE CHOOSE i \in stops : \A j \in stops : i <= j
    IN  IF start > delim - 1 THEN <<>> ELSE SubSeq(s, start, delim - 1)

\* re.match(r"^\d+(\.\d+){3}$", s)
IsIpAddress(s) ==
    LET parts == Split(s)
    IN  /\ Len(parts) = 4
        /\ \A k \in 1..4 : parts[k] # <<>> /\ \A i \in 1..Len(parts[k]) : parts[k][i] \in AsciiDigit

\* re.match(r"^[\w\-.]+$", s, re.UNICODE)
HasOnlyAllowedChars(s) ==
    /\ s # <<>>
    /\ \A i \in 1..Len(s) : s[i] \in WordChars \cup {"-", "."}

----------------------------------------------------------------------------
(* tldextract.extract, by its contract: the longest public suffix of the   *)
(* host is the suffix, the label before it the domain, the rest the        *)
(* subdomain.  The suffix list is cut down to the entries the inputs use.  *)

PublicSuffixes ==
    {<< <<"l", "t">> >>, << <<"g", "o", "v">>, <<"l", "t">> >>, << <<"c", "o", "m">> >>,
     << <<"u", "k">> >>, << <<"c", "o">>, <<"u", "k">> >>}

\* the index of the first label of the longest public suffix, Len(labels) + 1 if none
SuffixIndex(labels) ==
    LET hits == {i \in 1..Len(labels) : SubSeq(labels, i, Len(labels)) \in PublicSuffixes}
    IN  IF hits = {} THEN Len(labels) + 1 ELSE CHOOSE i \in hits : \A j \in hits : i <= j

TldExtract(s) ==
    LET labels == Split(RStripDots(s))
        i == SuffixIndex(labels)
    IN  [subdomain |-> IF i >= 3 THEN Join(SubSeq(labels, 1, i - 2)) ELSE <<>>,
         domain |-> IF i >= 2 THEN labels[i - 1] ELSE <<>>,
         suffix |-> IF i <= Len(labels) THEN Join(SubSeq(labels, i, Len(labels))) ELSE <<>>]

----------------------------------------------------------------------------
(* cleanup.py                                                              *)

GOV_DOMAINS == {<<"l", "r", "v">>, <<"e", "d", "u">>, <<"m", "i", "l">>}
GOV_SUFFIXES == {<<"l", "r", "v", ".", "l", "t">>, <<"e", "d", "u", ".", "l", "t">>,
                 <<"m", "i", "l", ".", "l", "t">>, <<"g", "o", "v", ".", "l", "t">>}

MinLabelLen == 3
MaxLabelLen == 63

\* a (bool, Optional[str]) pair
Valid == [ok |-> TRUE, reason |-> None]
Invalid(reason) == [ok |-> FALSE, reason |-> Some(reason)]

\* is_valid_domain_length that forgets the reason
is_valid_domain_length_no_reason(domain) ==
    LET labels == Split(domain)
        domain_labels == IF Len(labels) > 1 THEN SubSeq(labels, 1, Len(labels) - 1) ELSE labels
    IN  IF \E k \in 1..Len(domain_labels) :
               Len(domain_labels[k]) < MinLabelLen \/ Len(domain_labels[k]) > MaxLabelLen
        THEN [ok |-> FALSE, reason |-> None]
        ELSE Valid

\* is_valid_domain_length that lets a 64-character label through
is_valid_domain_length_max_64(domain) ==
    LET labels == Split(domain)
        domain_labels == IF Len(labels) > 1 THEN SubSeq(labels, 1, Len(labels) - 1) ELSE labels
        bad == {k \in 1..Len(domain_labels) :
                   Len(domain_labels[k]) < MinLabelLen \/ Len(domain_labels[k]) > MaxLabelLen + 1}
        first == CHOOSE k \in bad : \A j \in bad : k <= j
    IN  IF bad = {} THEN Valid
        ELSE IF Len(domain_labels[first]) < MinLabelLen
             THEN Invalid("domain label too short (min 3 chars)")
        ELSE Invalid("label exceeds 63 characters")

\* is_valid_domain_length that lets two-character labels through
is_valid_domain_length_min_two(domain) ==
    LET labels == Split(domain)
        domain_labels == IF Len(labels) > 1 THEN SubSeq(labels, 1, Len(labels) - 1) ELSE labels
        bad == {k \in 1..Len(domain_labels) :
                   Len(domain_labels[k]) < 2 \/ Len(domain_labels[k]) > MaxLabelLen}
        first == CHOOSE k \in bad : \A j \in bad : k <= j
    IN  IF bad = {} THEN Valid
        ELSE IF Len(domain_labels[first]) < 2
             THEN Invalid("domain label too short (min 3 chars)")
        ELSE Invalid("label exceeds 63 characters")

is_valid_domain_length(domain) ==
    LET labels == Split(domain)
        domain_labels == IF Len(labels) > 1 THEN SubSeq(labels, 1, Len(labels) - 1) ELSE labels
        bad == {k \in 1..Len(domain_labels) :
                   Len(domain_labels[k]) < MinLabelLen \/ Len(domain_labels[k]) > MaxLabelLen}
        first == CHOOSE k \in bad : \A j \in bad : k <= j
    IN  IF bad = {} THEN Valid
        ELSE IF Len(domain_labels[first]) < MinLabelLen
             THEN Invalid("domain label too short (min 3 chars)")
        ELSE Invalid("label exceeds 63 characters")

\* the verdict of the loop body of is_valid_hyphen_rules on one label
HyphenVerdict(label) ==
    IF StartsWith(label, <<"-">>) THEN Invalid("hyphen at start of label")
    ELSE IF EndsWith(label, <<"-">>) THEN Invalid("hyphen at end of label")
    ELSE IF Contains(label, <<"-", "-">>) /\ ~StartsWith(label, <<"x", "n", "-", "-">>)
         THEN Invalid("consecutive hyphens")
    ELSE Valid

is_valid_hyphen_rules(domain) ==
    LET labels == Split(domain)
        bad == {k \in 1..Len(labels) : ~HyphenVerdict(labels[k]).ok}
    IN  IF bad = {} THEN Valid
        ELSE HyphenVerdict(labels[CHOOSE k \in bad : \A j \in bad : k <= j])

\* what process_domain returns
Accepted(domain) == [domain |-> Some(domain), reason |-> None]
Rejected(reason) == [domain |-> None, reason |-> Some(reason)]
RejectedWith(reason) == [domain |-> None, reason |-> reason]

\* lines 77-84: trailing dots, the host of a URL, a leading "www."
StripUrlAndWww(stripped) ==
    LET undotted == RStripDots(stripped)
        host == IF SchemeLen(undotted) > 0
                THEN (IF UrlNetloc(undotted) # <<>> THEN UrlNetloc(undotted) ELSE undotted)
                ELSE undotted
    IN  IF StartsWith(Lower(host), <<"w", "w", "w", ".">>)
        THEN (IF Len(host) < 5 THEN <<>> ELSE SubSeq(host, 5, Len(host)))
        ELSE host

\* lines 98-116 without lines 110-111: a government name loses its subdomain
ApplyPolicyDropsSubdomain(ext, policy) ==
    LET suffix == ext.suffix
        domain == ext.domain \o <<".">> \o suffix
        use_gov_domains == IF policy.gov_domains # {} THEN policy.gov_domains ELSE GOV_DOMAINS
        use_gov_suffixes == IF policy.gov_suffixes # {} THEN policy.gov_suffixes ELSE GOV_SUFFIXES
    IN  IF /\ policy.target_tld # <<>>
           /\ suffix # policy.target_tld /\ suffix \notin use_gov_suffixes
           /\ ~policy.allow_other_tlds
        THEN Rejected("disallowed tld")
        ELSE IF suffix = <<"l", "t">>
        THEN IF suffix \in use_gov_suffixes \/ ext.domain \in use_gov_domains
             THEN Accepted(domain)
             ELSE IF ext.subdomain # <<>> /\ ~policy.allow_subdomains
                  THEN Rejected("non-govt subdomain")
             ELSE Accepted(domain)
        ELSE IF ext.subdomain # <<>> /\ ~policy.allow_subdomains
             THEN Rejected("subdomain not allowed")
        ELSE Accepted(domain)

\* lines 98-116 with line 105 short of its test against the government suffixes
ApplyPolicyNoGovExemption(ext, policy) ==
    LET suffix == ext.suffix
        domain == ext.domain \o <<".">> \o suffix
        use_gov_domains == IF policy.gov_domains # {} THEN policy.gov_domains ELSE GOV_DOMAINS
        use_gov_suffixes == IF policy.gov_suffixes # {} THEN policy.gov_suffixes ELSE GOV_SUFFIXES
    IN  IF /\ policy.target_tld # <<>>
           /\ suffix # policy.target_tld
           /\ ~policy.allow_other_tlds
        THEN Rejected("disallowed tld")
        ELSE IF suffix = <<"l", "t">>
        THEN IF suffix \in use_gov_suffixes \/ ext.domain \in use_gov_domains
             THEN (IF ext.subdomain # <<>>
                   THEN Accepted(ext.subdomain \o <<".">> \o domain)
                   ELSE Accepted(domain))
             ELSE IF ext.subdomain # <<>> /\ ~policy.allow_subdomains
                  THEN Rejected("non-govt subdomain")
             ELSE Accepted(domain)
        ELSE IF ext.subdomain # <<>> /\ ~policy.allow_subdomains
             THEN Rejected("subdomain not allowed")
        ELSE Accepted(domain)

\* lines 98-116: the suffix and subdomain policy on the extracted parts; the
\* candidate domain, or the reason it is turned away
ApplyPolicy(ext, policy) ==
    LET suffix == ext.suffix
        domain == ext.domain \o <<".">> \o suffix
        use_gov_domains == IF policy.gov_domains # {} THEN policy.gov_domains ELSE GOV_DOMAINS
        use_gov_suffixes == IF policy.gov_suffixes # {} THEN policy.gov_suffixes ELSE GOV_SUFFIXES
    IN  IF /\ policy.target_tld # <<>>
           /\ suffix # policy.target_tld /\ suffix \notin use_gov_suffixes
           /\ ~policy.allow_other_tlds
        THEN Rejected("disallowed tld")
        ELSE IF suffix = <<"l", "t">>
        THEN IF suffix \in use_gov_suffixes \/ ext.domain \in use_gov_domains
             THEN (IF ext.subdomain # <<>>
                   THEN Accepted(ext.subdomain \o <<".">> \o domain)
                   ELSE Accepted(domain))
             ELSE IF ext.subdomain # <<>> /\ ~policy.allow_subdomains
                  THEN Rejected("non-govt subdomain")
             ELSE Accepted(domain)
        ELSE IF ext.subdomain # <<>> /\ ~policy.allow_subdomains
             THEN Rejected("subdomain not allowed")
        ELSE Accepted(domain)

\* lines 73-84: the candidate when the extraction steps look at it
Cleaned(raw) == StripUrlAndWww(Strip(raw.val))

\* line 94: the parts tldextract finds in the lowercased candidate
Extracted(raw) == TldExtract(Lower(Cleaned(raw)))

\* lines 70-96: the reasons with which the steps before the suffix policy return
EarlyReasons ==
    {Some("empty"), Some("empty line"), Some("ip address"), Some("invalid characters"),
     Some("invalid domain/suffix")}

\* lines 101-102: the government sets in force
UseGovDomains(policy) == IF policy.gov_domains # {} THEN policy.gov_domains ELSE GOV_DOMAINS
UseGovSuffixes(policy) == IF policy.gov_suffixes # {} THEN policy.gov_suffixes ELSE GOV_SUFFIXES

\* lines 104-107: the suffix policy turns the candidate away
SuffixDisallowed(ext, policy) ==
    /\ policy.target_tld # <<>>
    /\ ext.suffix # policy.target_tld
    /\ ext.suffix \notin UseGovSuffixes(policy)
    /\ ~policy.allow_other_tlds

\* lines 70-116: the candidate domain process_domain hands to the length and
\* hyphen checks, or the rejection of an earlier step
Candidate(raw, policy) ==
    IF raw.isNone THEN Rejected("empty")
    ELSE IF Strip(raw.val) = <<>> THEN Rejected("empty line")
    ELSE LET cleaned == StripUrlAndWww(Strip(raw.val))
         IN  IF IsIpAddress(cleaned) THEN Rejected("ip address")
             ELSE IF ~HasOnlyAllowedChars(cleaned) THEN Rejected("invalid characters")
             ELSE LET ext == TldExtract(Lower(cleaned))
                  IN  IF ext.domain = <<>> \/ ext.suffix = <<>>
                      THEN Rejected("invalid domain/suffix")
                      ELSE ApplyPolicy(ext, policy)

process_domain(raw, policy) ==
    LET candidate == Candidate(raw, policy)
    IN  IF candidate.domain.isNone THEN candidate
        ELSE IF ~is_valid_domain_length(candidate.domain.val).ok
             THEN RejectedWith(is_valid_domain_length(candidate.domain.val).reason)
        ELSE IF ~is_valid_hyphen_rules(candidate.domain.val).ok
             THEN RejectedWith(is_valid_hyphen_rules(candidate.domain.val).reason)
        ELSE candidate

----------------------------------------------------------------------------
(* BruteForceGenerator (generators/brute_generator.py)                     *)

Digits == <<"0", "1", "2", "3", "4", "5", "6", "7", "8", "9">>
Letters == <<"a", "b", "c", "d", "e", "f", "g", "h", "i", "j", "k", "l", "m",
             "n", "o", "p", "q", "r", "s", "t", "u", "v", "w", "x", "y", "z">>

CHARACTER_SETS == [numbers |-> Digits, letters |-> Letters, alphanumeric |-> Letters \o Digits]

CharTypes == DOMAIN CHARACTER_SETS
HyphenModes == {"with", "without", "only"}

\* __init__: the configurations the constructor accepts (it raises otherwise)
BruteConfigOk(c) ==
    /\ c.char_type \in CharTypes
    /\ c.hyphen_mode \in HyphenModes
    /\ ~(c.min_len < 1 \/ c.max_len < c.min_len \/ c.max_len > 63)

get_character_set(self) ==
    IF self.hyphen_mode \in {"with", "only"}
    THEN CHARACTER_SETS[self.char_type] \o <<"-">>
    ELSE CHARACTER_SETS[self.char_type]

\* validate_domain without the test for a trailing hyphen
validate_domain_no_trailing(self, domain) ==
    IF StartsWith(domain, <<"-">>) THEN FALSE
    ELSE IF Contains(domain, <<"-", "-">>) THEN FALSE
    ELSE IF self.hyphen_mode = "only" /\ ~Contains(domain, <<"-">>) THEN FALSE
    ELSE IF Len(domain) < self.min_len \/ Len(domain) > self.max_len THEN FALSE
    ELSE TRUE

validate_domain(self, domain) ==
    IF StartsWith(domain, <<"-">>) \/ EndsWith(domain, <<"-">>) THEN FALSE
    ELSE IF Contains(domain, <<"-", "-">>) THEN FALSE
    ELSE IF self.hyphen_mode = "only" /\ ~Contains(domain, <<"-">>) THEN FALSE
    ELSE IF Len(domain) < self.min_len \/ Len(domain) > self.max_len THEN FALSE
    ELSE TRUE

\* the dp step that forgets the sequences ending in a hyphen
DpStepDropsHyphen(dp, base_n) == [h |-> dp.nh, nh |-> dp.nh * base_n]

\* one pass of the body of "for _ in range(2, L + 1)"
DpStep(dp, base_n) == [h |-> dp.nh, nh |-> dp.h * base_n + dp.nh * base_n]

RECURSIVE DpLoop(_, _, _)
\* the dp loop run k times from dp
DpLoop(dp, base_n, k) == IF k <= 0 THEN dp ELSE DpLoop(DpStep(dp, base_n), base_n, k - 1)

\* the per-length term with the approximate 0.90 multiplier in mode 'with'
EstimateForLengthApprox(self, L) ==
    LET base_n == Len(CHARACTER_SETS[self.char_type])
        dp == DpLoop([h |-> 0, nh |-> base_n], base_n, L - 1)
    IN  IF self.hyphen_mode = "without" THEN Pow(base_n, L)
        ELSE IF self.hyphen_mode = "with" THEN (Pow(base_n + 1, L) * 9) \div 10
        ELSE IF L < 2 THEN 0
        ELSE Max(dp.nh - Pow(base_n, L), 0)

\* what one pass of "for L in range(min_len, max_len + 1)" adds to total
EstimateForLength(self, L) ==
    LET base_n == Len(CHARACTER_SETS[self.char_type])
        dp == DpLoop([h |-> 0, nh |-> base_n], base_n, L - 1)
    IN  IF self.hyphen_mode = "without" THEN Pow(base_n, L)
        ELSE IF self.hyphen_mode = "with" THEN (IF L = 0 THEN 0 ELSE dp.nh)
        ELSE IF L < 2 THEN 0
        ELSE Max(dp.nh - Pow(base_n, L), 0)

RECURSIVE EstimateFrom(_, _)
EstimateFrom(self, L) ==
    IF L > self.max_len THEN 0 ELSE EstimateForLength(self, L) + EstimateFrom(self, L + 1)

estimate_count(self) == EstimateFrom(self, self.min_len)

\* itertools.product(charset, repeat=length): the first tuple, as positions in charset
ProductFirst(length) == [i \in 1..length |-> 1]

\* is there a tuple after combo
ProductHasNext(combo, n) == \E i \in 1..Len(combo) : combo[i] < n

\* the tuple after combo: the rightmost position that can advance does, the ones after it restart
ProductNext(combo, n) ==
    LET k == CHOOSE i \in 1..Len(combo) :
                 combo[i] < n /\ \A j \in (i + 1)..Len(combo) : combo[j] = n
    IN  [i \in 1..Len(combo) |-> IF i < k THEN combo[i] ELSE IF i = k THEN combo[i] + 1 ELSE 1]

\* ''.join(combo)
JoinCombo(self, combo) ==
    LET charset == get_character_set(self)
    IN  [i \in 1..Len(combo) |-> charset[combo[i]]]

\* f"{domain}.{self.tld}"
WithTld(domain, tld) == domain \o <<".">> \o tld

\* the largest max_len explored for a character set
MaxLenFor(char_type) == IF char_type = "numbers" THEN MaxLen ELSE MaxLenWide

BruteConfigs ==
    {c \in [char_type : CharTypes, min_len : 1..Max(MaxLen, MaxLenWide),
            max_len : 1..Max(MaxLen, MaxLenWide),
            hyphen_mode : HyphenModes, tld : {<<"l", "t">>}] :
        BruteConfigOk(c) /\ c.max_len <= MaxLenFor(c.char_type)}

\* the keyword arguments of process_domain; target_tld None and "" are both <<>>
\* (the code tests "if target_tld"), a government set None and set() are both {}
\* (the code takes "gov_domains or GOV_DOMAINS")
DefaultPolicy ==
    [target_tld |-> <<"l", "t">>, allow_other_tlds |-> FALSE, allow_subdomains |-> FALSE,
     gov_domains |-> {}, gov_suffixes |-> {}]

Policies ==
    [target_tld : {<<>>, <<"l", "t">>, <<"c", "o", "m">>}, allow_other_tlds : BOOLEAN,
     allow_subdomains : BOOLEAN, gov_domains : {{}}, gov_suffixes : {{}}]
    \cup
    [target_tld : {<<"l", "t">>}, allow_other_tlds : {FALSE}, allow_subdomains : BOOLEAN,
     gov_domains : {{<<"a", "b", "c">>}}, gov_suffixes : {{<<"c", "o", "m">>}}]
    \cup
    [target_tld : {<<"l", "t">>}, allow_other_tlds : {FALSE}, allow_subdomains : BOOLEAN,
     gov_domains : {{}}, gov_suffixes : {{<<"l", "t">>}}]

\* process_domain has not returned yet
NotRun == [domain |-> None, reason |-> None]

WordIdle ==
    /\ w_pc = "idle"
    /\ w_self = <<>>
    /\ w_line = 0
    /\ w_yielded = <<>>

WriteIdle ==
    /\ f_pc = "idle"
    /\ f_call = <<>>
    /\ f_count = 0
    /\ f_batch = <<>>
    /\ f_peak = 0
    /\ f_file = None
    /\ f_result = None

OneIdle ==
    /\ o_pc = "idle"
    /\ o_locals = <<>>
    /\ o_returned = None

CleanupIdle ==
    /\ k_pc = "idle"
    /\ k_args = <<>>
    /\ k_files = <<>>
    /\ k_log = <<>>
    /\ k_exit = None

CtorIdle ==
    /\ c_pc = "idle"
    /\ c_args = <<>>
    /\ c_raised = None
    /\ c_object = None
    /\ c_model = <<>>
    /\ c_line = 0

MarkovIdle ==
    /\ markov = <<>>
    /\ one_returns = {}
    /\ m_pc = "idle"
    /\ generated = {}
    /\ attempts = 0
    /\ yielded = <<>>

BruteIdle ==
    /\ brute = [char_type |-> "numbers", min_len |-> 1, max_len |-> 1,
                hyphen_mode |-> "without", tld |-> <<"l", "t">>]
    /\ estimated = None
    /\ g_pc = "idle"
    /\ g_length = 0
    /\ g_combo = <<>>
    /\ g_count = 0
    /\ g_last = <<>>
    /\ g_prev = <<>>

ValidatorIdle ==
    /\ v_pc = "idle"
    /\ v_raw = None
    /\ v_policy = DefaultPolicy
    /\ v_result = NotRun
    /\ v_again = NotRun

\* the state after BruteForceGenerator(...) returned
BruteInit ==
    /\ brute \in BruteConfigs
    /\ estimated = None
    /\ g_pc = "start"
    /\ g_length = 0
    /\ g_combo = <<>>
    /\ g_count = 0
    /\ g_last = <<>>
    /\ g_prev = <<>>
    /\ ValidatorIdle
    /\ MarkovIdle
    /\ CtorIdle
    /\ WordIdle
    /\ WriteIdle
    /\ OneIdle
    /\ CleanupIdle

\* estimated = generator.estimate_count(), as run_brute calls it (main.py line
\* 183) before anything is generated
EstimateCount ==
    /\ g_pc = "start"
    /\ estimated = None
    /\ estimated' = Some(estimate_count(brute))
    /\ UNCHANGED <<brute, g_pc, g_length, g_combo, g_count, g_last, g_prev>>
    /\ UNCHANGED validatorVars
    /\ UNCHANGED markovVars
    /\ UNCHANGED ctorVars
    /\ UNCHANGED <<wordVars, writeVars, oneVars, cleanupVars>>

\* the next (length, combo) the two nested for loops of generate() reach, if any;
\* the consumer starts pulling from generate() once estimate_count() returned
LoopHasNext ==
    \/ g_pc = "start" /\ ~estimated.isNone
    \/ g_pc = "running" /\ (ProductHasNext(g_combo, Len(get_character_set(brute)))
                             \/ g_length < brute.max_len)

LoopNextLength ==
    IF g_pc = "start" THEN brute.min_len
    ELSE IF ProductHasNext(g_combo, Len(get_character_set(brute))) THEN g_length
    ELSE g_length + 1

LoopNextCombo ==
    IF g_pc = "start" THEN ProductFirst(brute.min_len)
    ELSE IF ProductHasNext(g_combo, Len(get_character_set(brute)))
         THEN ProductNext(g_combo, Len(get_character_set(brute)))
    ELSE ProductFirst(g_length + 1)

\* one pass of the inner loop body of generate(): the next combo is joined and,
\* when it passes validate_domain, yielded with the tld
GenerateStep ==
    /\ LoopHasNext
    /\ LET combo == LoopNextCombo
           domain == JoinCombo(brute, combo)
       IN  /\ g_pc' = "running"
           /\ g_length' = LoopNextLength
           /\ g_combo' = combo
           /\ IF validate_domain(brute, domain)
              THEN /\ g_count' = g_count + 1
                   /\ g_last' = WithTld(domain, brute.tld)
                   /\ g_prev' = g_last
              ELSE UNCHANGED <<g_count, g_last, g_prev>>
    /\ UNCHANGED <<brute, estimated>>
    /\ UNCHANGED validatorVars
    /\ UNCHANGED markovVars
    /\ UNCHANGED ctorVars
    /\ UNCHANGED <<wordVars, writeVars, oneVars, cleanupVars>>

\* both loops of generate() are exhausted: the generator returns
GenerateExhausted ==
    /\ g_pc = "running"
    /\ ~LoopHasNext
    /\ g_pc' = "done"
    /\ UNCHANGED <<brute, estimated, g_length, g_combo, g_count, g_last, g_prev>>
    /\ UNCHANGED validatorVars
    /\ UNCHANGED markovVars
    /\ UNCHANGED ctorVars
    /\ UNCHANGED <<wordVars, writeVars, oneVars, cleanupVars>>

BruteNext == EstimateCount \/ GenerateStep \/ GenerateExhausted

BruteSpec == BruteInit /\ [][BruteNext]_vars

----------------------------------------------------------------------------
(* MarkovGenerator (markov_generator.py)                                   *)

\* the suffixes _normalize_input removes, in the order it tries them
KnownTlds ==
    <<<<".", "l", "t">>, <<".", "c", "o", "m">>, <<".", "n", "e", "t">>,
      <<".", "o", "r", "g">>, <<".", "i", "o">>, <<".", "c", "o">>>>

\* str.isalnum() of one character
IsAlnum(c) == c \in AsciiLower \cup AsciiUpper \cup AsciiDigit \cup NonAsciiLetter

\* s.strip('-')
StripHyphens(s) ==
    LET keep == {i \in 1..Len(s) : s[i] # "-"}
    IN  IF keep = {} THEN <<>>
        ELSE SubSeq(s, CHOOSE i \in keep : \A j \in keep : i <= j,
                       CHOOSE i \in keep : \A j \in keep : i >= j)

\* the loop over the known suffixes: the first one the text ends with is cut off
RemoveKnownTld(text) ==
    LET hits == {k \in 1..Len(KnownTlds) : EndsWith(text, KnownTlds[k])}
        first == CHOOSE k \in hits : \A j \in hits : k <= j
    IN  IF hits = {} THEN text
        ELSE IF Len(text) = Len(KnownTlds[first]) THEN <<>>
        ELSE SubSeq(text, 1, Len(text) - Len(KnownTlds[first]))

KeepInCorpus(c) == IsAlnum(c) \/ c = "-"

_normalize_input(line) ==
    \* ''.join(c for c in text if c.isalnum() or c == '-'), then strip('-')
    StripHyphens(SelectSeq(RemoveKnownTld(Lower(Strip(line))), KeepInCorpus))

\* Counter: counter[key] += 1
Inc(counter, key) ==
    IF key \in DOMAIN counter THEN [counter EXCEPT ![key] = @ + 1]
    ELSE counter @@ (key :> 1)

\* self.transitions[state][next_char] += 1
IncTransition(transitions, state, next_char) ==
    IF state \in DOMAIN transitions
    THEN [transitions EXCEPT ![state] = Inc(@, next_char)]
    ELSE transitions @@ (state :> (next_char :> 1))

RECURSIVE AddTransitions(_, _, _, _, _)
\* the passes i = lo .. hi - 1 of the loop "for i in range(len(text) - self.order)",
\* in order: the first half of them, then the second half
AddTransitions(transitions, text, order, lo, hi) ==
    IF lo >= hi THEN transitions
    ELSE IF hi = lo + 1
    THEN IncTransition(transitions, SubSeq(text, lo + 1, lo + order), text[lo + order + 1])
    ELSE LET mid == (lo + hi) \div 2
             first == AddTransitions(transitions, text, order, lo, mid)
         IN  \* the table after the first half is a value before the second half starts
             IF DOMAIN first # {} THEN AddTransitions(first, text, order, mid, hi)
             ELSE first

\* lines 118-125 with windows one character short
TrainLineShortWindow(model, line, order) ==
    LET text == _normalize_input(line)
        padded == [i \in 1..order |-> "^"] \o text \o <<"$">>
    IN  IF Len(text) < order \/ Len(text) > 63 THEN model
        ELSE [training_set |-> model.training_set \cup {text},
              start_states |-> Inc(model.start_states, SubSeq(padded, 1, order - 1)),
              transitions |-> AddTransitions(model.transitions, padded, order - 1, 0,
                                             Len(padded) - order)]

\* the loop body without the length test of line 108
TrainLineKeepsAll(model, line, order) ==
    LET text == _normalize_input(line)
        padded == [i \in 1..order |-> "^"] \o text \o <<"$">>
    IN  [training_set |-> model.training_set \cup {text},
         start_states |-> Inc(model.start_states, SubSeq(padded, 1, order)),
         transitions |-> AddTransitions(model.transitions, padded, order, 0, Len(padded) - order)]

\* the body of the loop over the corpus lines in _train
TrainLine(model, line, order) ==
    LET text == _normalize_input(line)
        padded == [i \in 1..order |-> "^"] \o text \o <<"$">>
    IN  IF Len(text) < order \/ Len(text) > 63 THEN model
        ELSE [training_set |-> model.training_set \cup {text},
              start_states |-> Inc(model.start_states, SubSeq(padded, 1, order)),
              transitions |-> AddTransitions(model.transitions, padded, order, 0, Len(padded) - order)]

RECURSIVE TrainLines(_, _, _)
\* the loop over the corpus lines in _train
TrainLines(model, corpus, order) ==
    IF corpus = <<>> THEN model
    ELSE TrainLines(TrainLine(model, Head(corpus), order), Tail(corpus), order)

\* a Counter without the keys at or below min_frequency
FilterCounterStrict(counter, min_frequency) ==
    [k \in {x \in DOMAIN counter : counter[x] > min_frequency} |-> counter[k]]

\* a Counter without the keys below min_frequency
FilterCounter(counter, min_frequency) ==
    [k \in {x \in DOMAIN counter : counter[x] >= min_frequency} |-> counter[k]]

_filter_by_frequency(model, min_frequency) ==
    IF min_frequency <= 1 THEN model
    ELSE [training_set |-> model.training_set,
          start_states |-> FilterCounter(model.start_states, min_frequency),
          transitions |->
              [st \in {x \in DOMAIN model.transitions :
                          DOMAIN FilterCounter(model.transitions[x], min_frequency) # {}} |->
                  FilterCounter(model.transitions[st], min_frequency)]]

\* the model before training: lines 59-61
EmptyModel == [training_set |-> {}, start_states |-> <<>>, transitions |-> <<>>]

_train(corpus, order, min_frequency) ==
    _filter_by_frequency(TrainLines(EmptyModel, corpus, order), min_frequency)

\* lines 43-48 without the test of count
MarkovConfigOkAnyCount(order, min_len, max_len, count) ==
    /\ ~(order < 1)
    /\ ~(min_len < 1 \/ max_len < min_len \/ max_len > 63)

\* __init__: the arguments the constructor accepts (it raises otherwise)
MarkovConfigOk(order, min_len, max_len, count) ==
    /\ ~(order < 1)
    /\ ~(min_len < 1 \/ max_len < min_len \/ max_len > 63)
    /\ ~(count < 1)

\* the object __init__ leaves behind
MarkovGenerator(corpus, order, min_len, max_len, count, min_frequency) ==
    LET model == _train(corpus, order, min_frequency)
    IN  [input_file |-> corpus,
         order |-> order, min_len |-> min_len, max_len |-> max_len, count |-> count,
         min_frequency |-> min_frequency, transitions |-> model.transitions,
         start_states |-> model.start_states, training_set |-> model.training_set]

\* _weighted_choice: the elements random.choices can return, those of positive weight
WeightedChoices(counter) == {k \in DOMAIN counter : counter[k] > 0}

\* state.replace('^', '')
NotBoundary(c) == c # "^"
RemoveBoundary(state) == SelectSeq(state, NotBoundary)

\* _generate_one, lines 189-194: the local variables when the loop is entered
OneStart(self) ==
    {[state |-> st, result |-> RemoveBoundary(st), attempts |-> 0, stopped |-> FALSE] :
        st \in WeightedChoices(self.start_states)}

\* lines 196-222 without line 222: the window is never slid
OneIterationNoSlide(self, w) ==
    IF w.state \notin DOMAIN self.transitions
    THEN {[w EXCEPT !.attempts = @ + 1, !.stopped = TRUE]}
    ELSE IF WeightedChoices(self.transitions[w.state]) = {}
    THEN {[w EXCEPT !.attempts = @ + 1, !.stopped = TRUE]}
    ELSE {IF next_char = "$"
          THEN (IF Len(w.result) >= self.min_len
                THEN [w EXCEPT !.attempts = @ + 1, !.stopped = TRUE]
                ELSE [w EXCEPT !.attempts = @ + 1])
          ELSE IF Len(w.result) + 1 >= self.max_len
          THEN [w EXCEPT !.attempts = @ + 1, !.result = @ \o <<next_char>>, !.stopped = TRUE]
          ELSE [w EXCEPT !.attempts = @ + 1, !.result = @ \o <<next_char>>] :
          next_char \in WeightedChoices(self.transitions[w.state])}

\* _generate_one, lines 196-222: one pass of the while loop from the locals w,
\* for every character the random choice can draw
OneIteration(self, w) ==
    IF w.state \notin DOMAIN self.transitions
    THEN {[w EXCEPT !.attempts = @ + 1, !.stopped = TRUE]}
    ELSE IF WeightedChoices(self.transitions[w.state]) = {}
    THEN {[w EXCEPT !.attempts = @ + 1, !.stopped = TRUE]}
    ELSE {IF next_char = "$"
          THEN (IF Len(w.result) >= self.min_len
                THEN [w EXCEPT !.attempts = @ + 1, !.stopped = TRUE]
                ELSE [w EXCEPT !.attempts = @ + 1])
          ELSE IF Len(w.result) + 1 >= self.max_len
          THEN [w EXCEPT !.attempts = @ + 1, !.result = @ \o <<next_char>>, !.stopped = TRUE]
          ELSE [w EXCEPT !.attempts = @ + 1, !.result = @ \o <<next_char>>,
                         !.state = Tail(@) \o <<next_char>>] :
          next_char \in WeightedChoices(self.transitions[w.state])}

\* line 196 with one pass more than max_attempts before the loop ends
OneLoopOverLateCeiling(self, w) == w.stopped \/ ~(w.attempts < self.max_len * 3 + 1)

\* the while loop is over: a break, or attempts reached max_attempts
OneLoopOver(self, w) == w.stopped \/ ~(w.attempts < self.max_len * 3)

RECURSIVE OneLoopResults(_, _, _)
\* the values of result with which the while loop can end, from the locals in frontier
OneLoopResults(self, frontier, results) ==
    IF frontier = {} THEN results
    ELSE OneLoopResults(
             self,
             UNION {OneIteration(self, w) : w \in {x \in frontier : ~OneLoopOver(self, x)}},
             results \cup {w.result : w \in {x \in frontier : OneLoopOver(self, x)}})

\* lines 224-232 without the DNS test
OneFinalNoDnsCheck(self, result) ==
    IF Len(result) < self.min_len \/ Len(result) > self.max_len THEN None
    ELSE Some(result)

\* _generate_one, lines 224-232: the final validation
OneFinal(self, result) ==
    IF Len(result) < self.min_len \/ Len(result) > self.max_len THEN None
    ELSE IF StartsWith(result, <<"-">>) \/ EndsWith(result, <<"-">>)
            \/ Contains(result, <<"-", "-">>) THEN None
    ELSE Some(result)

\* _generate_one without lines 186-187: no start state to draw, no walk, no value
_generate_one_unguarded(self) ==
    {OneFinal(self, r) : r \in OneLoopResults(self, OneStart(self), {})}

\* every value _generate_one can return
_generate_one(self) ==
    IF DOMAIN self.start_states = {} THEN {None}
    ELSE {OneFinal(self, r) : r \in OneLoopResults(self, OneStart(self), {})}

\* line 249 without the test against the training set
IsNovelIgnoringTraining(self, domain, seen) ==
    /\ ~domain.isNone /\ domain.val # <<>>
    /\ domain.val \notin seen

\* generate, line 249: domain and domain not in self.training_set and domain not in generated
IsNovel(self, domain, seen) ==
    /\ ~domain.isNone /\ domain.val # <<>>
    /\ domain.val \notin self.training_set
    /\ domain.val \notin seen

\* a line of n times the character c
LineOf(c, n) == [i \in 1..n |-> c]

\* the corpora a generator is trained on: the lines of the input file
Corpora ==
    {<<>>,
     <<<<"t", "e", "s", "t">>, <<"d", "e", "m", "o">>, <<"t", "e", "s", "t">>>>,
     <<LineOf("a", 63), LineOf("b", 64), <<"b", "a">>, <<"b", "a">>>>,
     <<<<"a", "b">>, <<"b", "a">>>>,
     <<<<"a", "-", "b">>, <<"a", "b", ".", "l", "t">>>>,
     <<<<"a", "-", "-", "b">>, <<"b">>>>,
     <<<<" ", "A", "B", ".", "l", "t">>, <<"a", "b">>, <<"b", "a">>, <<"-", "a", "b", "-">>>>,
     <<<<"a", "a", "b">>, <<"a", "b", "b">>>>}

\* the (min_len, max_len) pairs a generator is built with
MarkovLengths == {<<1, 1>>, <<1, 2>>, <<2, 3>>, <<3, 3>>, <<1, 3>>}

MarkovOrders == {1, 2}
MarkovFrequencies == {1, 2}

MarkovObjects ==
    {MarkovGenerator(corpus, order, lens[1], lens[2], count, min_frequency) :
        corpus \in Corpora, order \in MarkovOrders, lens \in MarkovLengths,
        count \in 1..MaxCount, min_frequency \in MarkovFrequencies}

\* the state after MarkovGenerator(...) returned and generate() was called
MarkovInit ==
    /\ markov \in MarkovObjects
    /\ one_returns = _generate_one(markov)
    /\ m_pc = "loop"
    /\ generated = {}
    /\ attempts = 0
    /\ yielded = <<>>
    /\ ValidatorIdle
    /\ BruteIdle
    /\ CtorIdle
    /\ WordIdle
    /\ WriteIdle
    /\ OneIdle
    /\ CleanupIdle

\* line 245 without the attempt budget
GenerateLoopOnNoBudget == Cardinality(generated) < markov.count

\* generate, line 245: the while condition
GenerateLoopOn == Cardinality(generated) < markov.count /\ attempts < markov.count * 100

\* one pass of the while loop of generate(): _generate_one returned a novel string, which is yielded
AttemptYields ==
    /\ m_pc = "loop"
    /\ GenerateLoopOn
    /\ \E domain \in one_returns :
          /\ IsNovel(markov, domain, generated)
          /\ generated' = generated \cup {domain.val}
          /\ yielded' = Append(yielded, domain.val)
    /\ attempts' = attempts + 1
    /\ UNCHANGED <<markov, one_returns, m_pc>>
    /\ UNCHANGED validatorVars
    /\ UNCHANGED bruteVars
    /\ UNCHANGED ctorVars
    /\ UNCHANGED <<wordVars, writeVars, oneVars, cleanupVars>>

\* one pass of the while loop of generate(): _generate_one returned None, a
\* training string or a string already yielded
AttemptDiscards ==
    /\ m_pc = "loop"
    /\ GenerateLoopOn
    /\ \E domain \in one_returns : ~IsNovel(markov, domain, generated)
    /\ attempts' = attempts + 1
    /\ UNCHANGED <<markov, one_returns, m_pc, generated, yielded>>
    /\ UNCHANGED validatorVars
    /\ UNCHANGED bruteVars
    /\ UNCHANGED ctorVars
    /\ UNCHANGED <<wordVars, writeVars, oneVars, cleanupVars>>

\* the while condition of generate() is false: the generator returns
GenerateReturns ==
    /\ m_pc = "loop"
    /\ ~GenerateLoopOn
    /\ m_pc' = "done"
    /\ UNCHANGED <<markov, one_returns, generated, attempts, yielded>>
    /\ UNCHANGED validatorVars
    /\ UNCHANGED bruteVars
    /\ UNCHANGED ctorVars
    /\ UNCHANGED <<wordVars, writeVars, oneVars, cleanupVars>>

MarkovNext == AttemptYields \/ AttemptDiscards \/ GenerateReturns

MarkovSpec == MarkovInit /\ [][MarkovNext]_vars

\* generate() consumed to the end: the consumer keeps pulling, so a pass of
\* the loop that can be taken is taken
MarkovFairSpec == MarkovSpec /\ WF_vars(MarkovNext)

-----------------------------------------------------------------------------
(* One call of MarkovGenerator._generate_one, pass by pass.                *)

\* the state after MarkovGenerator(...) returned and _generate_one() was called
OneInit ==
    /\ markov \in MarkovObjects
    /\ one_returns = {}
    /\ m_pc = "idle"
    /\ generated = {}
    /\ attempts = 0
    /\ yielded = <<>>
    /\ o_pc = "called"
    /\ o_locals = <<>>
    /\ o_returned = None
    /\ ValidatorIdle
    /\ BruteIdle
    /\ CtorIdle
    /\ WordIdle
    /\ WriteIdle
    /\ CleanupIdle

\* _generate_one, lines 186-187: no start state, None is returned
OneNoStartState ==
    /\ o_pc = "called"
    /\ DOMAIN markov.start_states = {}
    /\ o_pc' = "returned"
    /\ o_returned' = None
    /\ UNCHANGED o_locals
    /\ UNCHANGED <<validatorVars, bruteVars, markovVars, ctorVars>>
    /\ UNCHANGED <<wordVars, writeVars, cleanupVars>>

\* _generate_one, lines 189-194: a start state is drawn, the locals are set
OneChoosesStart ==
    /\ o_pc = "called"
    /\ DOMAIN markov.start_states # {}
    /\ o_locals' \in OneStart(markov)
    /\ o_pc' = "loop"
    /\ UNCHANGED o_returned
    /\ UNCHANGED <<validatorVars, bruteVars, markovVars, ctorVars>>
    /\ UNCHANGED <<wordVars, writeVars, cleanupVars>>

\* _generate_one, lines 196-222: one pass of the while loop
OneLoopPass ==
    /\ o_pc = "loop"
    /\ ~OneLoopOver(markov, o_locals)
    /\ o_locals' \in OneIteration(markov, o_locals)
    /\ UNCHANGED <<o_pc, o_returned>>
    /\ UNCHANGED <<validatorVars, bruteVars, markovVars, ctorVars>>
    /\ UNCHANGED <<wordVars, writeVars, cleanupVars>>

\* _generate_one, lines 224-232: the loop is over, the result is validated
\* and returned
OneReturns ==
    /\ o_pc = "loop"
    /\ OneLoopOver(markov, o_locals)
    /\ o_returned' = OneFinal(markov, o_locals.result)
    /\ o_pc' = "returned"
    /\ UNCHANGED o_locals
    /\ UNCHANGED <<validatorVars, bruteVars, markovVars, ctorVars>>
    /\ UNCHANGED <<wordVars, writeVars, cleanupVars>>

OneNext == OneNoStartState \/ OneChoosesStart \/ OneLoopPass \/ OneReturns

OneSpec == OneInit /\ [][OneNext]_vars

----------------------------------------------------------------------------
(* Constructor calls: BruteForceGenerator(...) and MarkovGenerator(...),   *)
(* the second with its training loop taken one corpus line at a time.      *)

\* the arguments BruteForceGenerator is called with, valid and invalid
BruteCalls ==
    [cls : {"BruteForceGenerator"},
     char_type : CharTypes \cup {"symbols"},
     hyphen_mode : HyphenModes \cup {"maybe"},
     min_len : 0..MaxLen,
     max_len : (0..MaxLen) \cup {63, 64},
     tld : {<<"l", "t">>}]

\* the files a constructor call trains on: the corpora, and a file with a
\* line in Lithuanian letters
TrainingCorpora ==
    Corpora \cup {<<<<"A_ogonek", "b", "c", ".", "l", "t">>, <<"a", "b">>>>}

\* the arguments MarkovGenerator is called with, valid and invalid;
\* input_file is the lines of the file, file_exists whether the path exists
MarkovCalls ==
    [cls : {"MarkovGenerator"},
     file_exists : BOOLEAN,
     input_file : TrainingCorpora,
     order : 0..2,
     min_len : {0, 1, 2},
     max_len : {1, 2, 63, 64},
     count : 0..MaxCount,
     min_frequency : MarkovFrequencies \cup {0}]

ConstructInit ==
    /\ c_pc = "call"
    /\ c_args \in BruteCalls \cup MarkovCalls
    /\ c_raised = None
    /\ c_object = None
    /\ c_model = <<>>
    /\ c_line = 0
    /\ ValidatorIdle
    /\ BruteIdle
    /\ MarkovIdle
    /\ WordIdle
    /\ WriteIdle
    /\ OneIdle
    /\ CleanupIdle

\* BruteForceGenerator.__init__: raises, or fills in the object
BruteConstruct ==
    /\ c_pc = "call"
    /\ c_args.cls = "BruteForceGenerator"
    /\ IF BruteConfigOk(c_args)
       THEN /\ c_pc' = "built"
            /\ c_object' = Some([char_type |-> c_args.char_type, min_len |-> c_args.min_len,
                                 max_len |-> c_args.max_len,
                                 hyphen_mode |-> c_args.hyphen_mode, tld |-> c_args.tld])
            /\ UNCHANGED c_raised
       ELSE /\ c_pc' = "raised"
            /\ c_raised' = Some("ValueError")
            /\ UNCHANGED c_object
    /\ UNCHANGED <<c_args, c_model, c_line>>
    /\ UNCHANGED validatorVars
    /\ UNCHANGED bruteVars
    /\ UNCHANGED markovVars
    /\ UNCHANGED <<wordVars, writeVars, oneVars, cleanupVars>>

\* MarkovGenerator.__init__ up to the open() of _train: raises on the
\* arguments, then on a missing file, or sets up the empty model storage
MarkovConstruct ==
    /\ c_pc = "call"
    /\ c_args.cls = "MarkovGenerator"
    /\ IF ~MarkovConfigOk(c_args.order, c_args.min_len, c_args.max_len, c_args.count)
       THEN /\ c_pc' = "raised"
            /\ c_raised' = Some("ValueError")
            /\ UNCHANGED c_model
       ELSE IF ~c_args.file_exists
       THEN /\ c_pc' = "raised"
            /\ c_raised' = Some("FileNotFoundError")
            /\ c_model' = EmptyModel
       ELSE /\ c_pc' = "train"
            /\ c_model' = EmptyModel
            /\ UNCHANGED c_raised
    /\ UNCHANGED <<c_args, c_object, c_line>>
    /\ UNCHANGED validatorVars
    /\ UNCHANGED bruteVars
    /\ UNCHANGED markovVars
    /\ UNCHANGED <<wordVars, writeVars, oneVars, cleanupVars>>

\* _train: one pass of the loop over the lines of the file
TrainReadLine ==
    /\ c_pc = "train"
    /\ c_line < Len(c_args.input_file)
    /\ c_model' = TrainLine(c_model, c_args.input_file[c_line + 1], c_args.order)
    /\ c_line' = c_line + 1
    /\ UNCHANGED <<c_pc, c_args, c_raised, c_object>>
    /\ UNCHANGED validatorVars
    /\ UNCHANGED bruteVars
    /\ UNCHANGED markovVars
    /\ UNCHANGED <<wordVars, writeVars, oneVars, cleanupVars>>

\* _train after the last line: _filter_by_frequency, and the constructor returns
TrainFilter ==
    /\ c_pc = "train"
    /\ c_line = Len(c_args.input_file)
    /\ c_model' = _filter_by_frequency(c_model, c_args.min_frequency)
    /\ c_object' = Some([input_file |-> c_args.input_file, order |-> c_args.order,
                         min_len |-> c_args.min_len, max_len |-> c_args.max_len,
                         count |-> c_args.count, min_frequency |-> c_args.min_frequency,
                         transitions |-> c_model'.transitions,
                         start_states |-> c_model'.start_states,
                         training_set |-> c_model'.training_set])
    /\ c_pc' = "built"
    /\ UNCHANGED <<c_args, c_raised, c_line>>
    /\ UNCHANGED validatorVars
    /\ UNCHANGED bruteVars
    /\ UNCHANGED markovVars
    /\ UNCHANGED <<wordVars, writeVars, oneVars, cleanupVars>>

ConstructNext == BruteConstruct \/ MarkovConstruct \/ TrainReadLine \/ TrainFilter

ConstructSpec == ConstructInit /\ [][ConstructNext]_vars

----------------------------------------------------------------------------
(* WordTransformGenerator (generators/word_transform_generator.py)         *)

\* LITHUANIAN_TO_LATIN.get(char, char), for the non-ASCII letters of the model
LithuanianToLatin(c) ==
    CASE c = "a_ogonek" -> "a"
      [] c = "A_ogonek" -> "A"
      [] OTHER -> c

normalize_lithuanian_chars(text) == [i \in 1..Len(text) |-> LithuanianToLatin(text[i])]

\* the characters re.sub(r'[^a-zA-Z0-9-]', '', word) keeps
IsCleanWordChar(c) == c \in AsciiLower \cup AsciiUpper \cup AsciiDigit \cup {"-"}

clean_word(word) == SelectSeq(word, IsCleanWordChar)

\* tld.lstrip('.')
LStripDots(s) ==
    LET keep == {i \in 1..Len(s) : s[i] # "."}
    IN  IF keep = {} THEN <<>>
        ELSE SubSeq(s, CHOOSE i \in keep : \A j \in keep : i <= j, Len(s))

transform_word(self, word) ==
    clean_word(normalize_lithuanian_chars(Lower(word))) \o <<".">> \o self.tld

\* the keyword arguments generate() gives process_domain
WordPolicy(self) ==
    [target_tld |-> self.tld, allow_other_tlds |-> TRUE, allow_subdomains |-> FALSE,
     gov_domains |-> {}, gov_suffixes |-> {}]

\* lines 102-112 with the transformed word yielded as it is
WordLineYieldUnvalidated(self, line) ==
    IF Strip(line) = <<>> THEN None
    ELSE Some(transform_word(self, Strip(line)))

\* generate, lines 102-112: what the loop body yields for one line, None for nothing
\* generate, lines 111-112: "if cleaned: yield cleaned" on process_domain's result
YieldIfCleaned(checked) ==
    IF ~checked.domain.isNone /\ checked.domain.val # <<>>
    THEN checked.domain
    ELSE None

\* generate, lines 102-112: what the loop body yields for one line, None for nothing
WordLineYield(self, line) ==
    IF Strip(line) = <<>> THEN None
    ELSE YieldIfCleaned(process_domain(Some(transform_word(self, Strip(line))), WordPolicy(self)))

\* the values the consumer of generate() has received, after one more pass
Received(sofar, y) == IF y.isNone THEN sofar ELSE Append(sofar, y.val)

\* the largest number of lines in a WordTransformGenerator's input file
MaxWords == 2

\* the lines an input file is made of
WordLines ==
    {<<>>, <<" ">>, <<"a">>, <<"a", "b">>, <<"a", "b", "c">>, <<" ", "A", "b", ".", "C", " ">>,
     <<"A_ogonek", "b", "c">>, <<"I_dot", "b", "c">>, <<"a", "b", "c", "-">>, <<"a", "-", "-", "b">>,
     <<"w", "w", "w">>, <<"a", "_", "b", "c">>, <<"_">>, LineOf("a", 63), LineOf("a", 64)}

RECURSIVE WordFiles(_)
\* the files of at most n lines
WordFiles(n) ==
    IF n = 0 THEN {<<>>}
    ELSE WordFiles(n - 1) \cup {Append(f, l) : f \in {g \in WordFiles(n - 1) : Len(g) = n - 1},
                                               l \in WordLines}

\* the state after WordTransformGenerator(input_file, tld) returned (the file
\* exists) and generate() was called
WordInit ==
    /\ w_pc = "loop"
    /\ w_self \in [lines : WordFiles(MaxWords),
                   tld : {LStripDots(t) : t \in {<<"l", "t">>, <<".", "l", "t">>, <<"c", "o", "m">>}}]
    /\ w_line = 0
    /\ w_yielded = <<>>
    /\ ValidatorIdle
    /\ BruteIdle
    /\ MarkovIdle
    /\ CtorIdle
    /\ WriteIdle
    /\ OneIdle
    /\ CleanupIdle

\* generate: one pass of the loop over the lines of the file
WordReadLine ==
    /\ w_pc = "loop"
    /\ w_line < Len(w_self.lines)
    /\ w_line' = w_line + 1
    /\ w_yielded' = Received(w_yielded, WordLineYield(w_self, w_self.lines[w_line + 1]))
    /\ UNCHANGED <<w_pc, w_self>>
    /\ UNCHANGED <<validatorVars, bruteVars, markovVars, ctorVars>>
    /\ UNCHANGED <<writeVars, oneVars, cleanupVars>>

\* generate: the file is exhausted, the generator returns
WordReturns ==
    /\ w_pc = "loop"
    /\ w_line = Len(w_self.lines)
    /\ w_pc' = "done"
    /\ UNCHANGED <<w_self, w_line, w_yielded>>
    /\ UNCHANGED <<validatorVars, bruteVars, markovVars, ctorVars>>
    /\ UNCHANGED <<writeVars, oneVars, cleanupVars>>

WordNext == WordReadLine \/ WordReturns

WordSpec == WordInit /\ [][WordNext]_vars

-----------------------------------------------------------------------------
(* utils/io_utils.py write_batches and the generate_to_file that calls it. *)

\* what a call gave back: the value it returned, or the exception it raised
Returned(value) == [raised |-> "", value |-> value]
Raised(exception) == [raised |-> exception, value |-> 0]

RECURSIVE JoinLines(_)
\* '\n'.join(batch) + '\n', for a batch that is not empty
JoinLines(batch) ==
    IF batch = <<>> THEN <<>> ELSE Head(batch) \o <<"\n">> \o JoinLines(Tail(batch))

\* write_batches line 42 with the test 'len(batch) > batch_size'
BatchFullLate(batch, batch_size) == Len(batch) > batch_size

\* write_batches line 42: len(batch) >= batch_size
BatchFull(batch, batch_size) == Len(batch) >= batch_size

\* itertools.product(charset, repeat=length) as the sequence of its tuples, each
\* a sequence of positions in charset: the rightmost position moves fastest
Product(n, length) ==
    [k \in 1..Pow(n, length) |->
        [i \in 1..length |-> (((k - 1) \div Pow(n, length - i)) % n) + 1]]

RECURSIVE GenerateFromLength(_, _)
\* BruteForceGenerator.generate(): everything it yields from the given length on
GenerateFromLength(self, length) ==
    IF length > self.max_len THEN <<>>
    ELSE LET Yields(combo) == validate_domain(self, JoinCombo(self, combo))
             kept == SelectSeq(Product(Len(get_character_set(self)), length), Yields)
         IN  [k \in 1..Len(kept) |-> WithTld(JoinCombo(self, kept[k]), self.tld)]
                 \o GenerateFromLength(self, length + 1)

\* list(self.generate())
GenerateAll(self) == GenerateFromLength(self, self.min_len)

\* the largest number of items of an iterable given to write_batches
MaxItems == 4

\* the largest batch_size of a call
MaxBatch == 3

\* the items of an iterable
WriteItems == {<<"a", ".", "l", "t">>, <<"b", "c", ".", "l", "t">>}

\* the calls: generate_to_file of a brute-force generator of names of one
\* character, and write_batches on an iterable of at most MaxItems items
WriteCalls ==
    [fn : {"BruteForceGenerator.generate_to_file"},
     self : {c \in BruteConfigs : c.max_len = 1},
     iterable : {<<>>},
     batch_size : 1..MaxBatch]
    \cup
    [fn : {"write_batches"},
     self : {<<>>},
     iterable : UNION {[1..n -> WriteItems] : n \in 0..MaxItems},
     batch_size : 0..MaxBatch]

WriteInit ==
    /\ f_pc = "called"
    /\ f_call \in WriteCalls
    /\ f_count = 0
    /\ f_batch = <<>>
    /\ f_peak = 0
    /\ f_file = None
    /\ f_result = None
    /\ ValidatorIdle
    /\ BruteIdle
    /\ MarkovIdle
    /\ CtorIdle
    /\ WordIdle
    /\ OneIdle
    /\ CleanupIdle

\* BruteForceGenerator.generate_to_file, lines 162-168: estimate_count() is
\* evaluated, then write_batches is called with the keyword progress_total,
\* which its signature (io_utils.py line 21) does not have: the call raises
\* TypeError before the body of write_batches runs
BruteGenerateToFile ==
    /\ f_pc = "called"
    /\ f_call.fn = "BruteForceGenerator.generate_to_file"
    /\ estimate_count(f_call.self) >= 0
    /\ f_pc' = "done"
    /\ f_result' = Some(Raised("TypeError"))
    /\ UNCHANGED <<f_call, f_count, f_batch, f_peak, f_file>>
    /\ UNCHANGED <<validatorVars, bruteVars, markovVars, ctorVars>>
    /\ UNCHANGED <<wordVars, oneVars, cleanupVars>>

\* write_batches, lines 32-38: count = 0, batch = [], the parent directory is
\* made and the file is opened for writing, which creates or empties it
WriteOpen ==
    /\ f_pc = "called"
    /\ f_call.fn = "write_batches"
    /\ f_pc' = "loop"
    /\ f_count' = 0
    /\ f_batch' = <<>>
    /\ f_file' = Some(<<>>)
    /\ UNCHANGED <<f_call, f_peak, f_result>>
    /\ UNCHANGED <<validatorVars, bruteVars, markovVars, ctorVars>>
    /\ UNCHANGED <<wordVars, oneVars, cleanupVars>>

\* write_batches, lines 39-44: one pass of the loop over the iterable
WritePull ==
    /\ f_pc = "loop"
    /\ f_count < Len(f_call.iterable)
    /\ f_count' = f_count + 1
    /\ f_peak' = Max(f_peak, Len(f_batch) + 1)
    /\ \E batch \in {Append(f_batch, f_call.iterable[f_count + 1])} :
           IF BatchFull(batch, f_call.batch_size)
           THEN /\ f_file' = Some(f_file.val \o JoinLines(batch))
                /\ f_batch' = <<>>
           ELSE /\ f_batch' = batch
                /\ UNCHANGED f_file
    /\ UNCHANGED <<f_pc, f_call, f_result>>
    /\ UNCHANGED <<validatorVars, bruteVars, markovVars, ctorVars>>
    /\ UNCHANGED <<wordVars, oneVars, cleanupVars>>

\* write_batches, lines 46-50: the iterable is exhausted, what is left in the
\* batch is written, the file is closed and count is returned
WriteReturns ==
    /\ f_pc = "loop"
    /\ f_count = Len(f_call.iterable)
    /\ f_file' = IF f_batch # <<>> THEN Some(f_file.val \o JoinLines(f_batch)) ELSE f_file
    /\ f_pc' = "done"
    /\ f_result' = Some(Returned(f_count))
    /\ UNCHANGED <<f_call, f_count, f_batch, f_peak>>
    /\ UNCHANGED <<validatorVars, bruteVars, markovVars, ctorVars>>
    /\ UNCHANGED <<wordVars, oneVars, cleanupVars>>

WriteNext == BruteGenerateToFile \/ WriteOpen \/ WritePull \/ WriteReturns

WriteSpec == WriteInit /\ [][WriteNext]_vars

-----------------------------------------------------------------------------
(* main.py run_cleanup: clean_file, then remove_domains when a removees    *)
(* file is given.                                                          *)

\* the characters of a cleaned domain in code point order
CodePointOrder ==
    <<"-", ".", "0", "1", "2", "3", "4", "5", "6", "7", "8", "9",
      "a", "b", "c", "d", "e", "f", "g", "h", "i", "j", "k", "l", "m",
      "n", "o", "p", "q", "r", "s", "t", "u", "v", "w", "x", "y", "z">>

CodePointRank(c) == CHOOSE i \in 1..Len(CodePointOrder) : CodePointOrder[i] = c

\* a < b for strings
StrLess(a, b) ==
    \E i \in 1..Len(b) :
        /\ \A j \in 1..(i - 1) : j <= Len(a) /\ a[j] = b[j]
        /\ i <= Len(a) => CodePointRank(a[i]) < CodePointRank(b[i])

RECURSIVE sorted(_)
\* sorted(cleaned)
sorted(cleaned) ==
    IF cleaned = {} THEN <<>>
    ELSE LET least == CHOOSE x \in cleaned : \A y \in cleaned \ {x} : StrLess(x, y)
         IN  <<least>> \o sorted(cleaned \ {least})

\* clean_file, lines 151-170: what the loop over the input lines collects;
\* a blank line has no result
CleanResults(lines, policy) ==
    [n \in 1..Len(lines) |->
        IF Strip(lines[n]) = <<>> THEN NotRun ELSE process_domain(Some(lines[n]), policy)]

\* clean_file, lines 172-175: the lines of the output file
CleanOutput(lines, results) ==
    sorted({results[n].domain.val :
               n \in {k \in 1..Len(lines) : Strip(lines[k]) # <<>> /\ ~results[k].domain.isNone
                                              /\ results[k].domain.val # <<>>}})

\* clean_file, lines 177-182: the lines of the errors file, each the line
\* number, the reason and the line; the text "Line n: reason | line" is kept
\* as its three parts
CleanErrors(lines, results) ==
    LET Failed(n) == /\ Strip(lines[n]) # <<>>
                     /\ (results[n].domain.isNone \/ results[n].domain.val = <<>>)
                     /\ results[n].reason # Some("empty line")
        Entry(n) == [line_num |-> n,
                     reason |-> IF results[n].reason.isNone THEN "unknown" ELSE results[n].reason.val,
                     line_val |-> lines[n]]
        numbers == SelectSeq([n \in 1..Len(lines) |-> n], Failed)
    IN  [k \in 1..Len(numbers) |-> Entry(numbers[k])]

\* remove_domains, lines 215-230: the parent lines that are kept
RemoveKept(parent, removees) ==
    LET names == {Lower(Strip(removees[k])) : k \in {j \in 1..Len(removees) : Strip(removees[j]) # <<>>}}
        Keeps(line) == Strip(line) # <<>> /\ Lower(Strip(line)) \notin names
        kept == SelectSeq(parent, Keeps)
    IN  [k \in 1..Len(kept) |-> Strip(kept[k])]

\* the largest number of lines of the input file of a cleanup
MaxCleanupLines == 2

\* the lines of an input file
CleanupLines ==
    {<<"x", "y", "z", ".", "l", "t">>, <<"a", "b", "c", ".", "l", "t">>,
     <<"A", "B", "C", ".", "l", "t">>, <<"a", "b", ".", "l", "t">>,
     <<"a", "b", "c", ".", "c", "o", "m">>, <<" ">>}

\* the files before the command runs; None is a file that does not exist
CleanupFiles ==
    [input : {None} \cup {Some(f) : f \in UNION {[1..n -> CleanupLines] : n \in 0..MaxCleanupLines}},
     output : {None, Some(<<<<"o", "l", "d", ".", "l", "t">>>>)},
     errors : {None},
     removees : {None, Some(<<>>), Some(<<<<"A", "B", "C", ".", "l", "t">>>>)},
     remove_output : {None}]

\* the parsed arguments: removees is whether --removees was given
CleanupArgs ==
    [removees : BOOLEAN, tld : {<<"l", "t">>}, allow_other_tlds : BOOLEAN, allow_subdomains : {FALSE}]

\* the keyword arguments clean_file gives process_domain
CleanupPolicy(args) ==
    [target_tld |-> args.tld, allow_other_tlds |-> args.allow_other_tlds,
     allow_subdomains |-> args.allow_subdomains, gov_domains |-> {}, gov_suffixes |-> {}]

CleanupInit ==
    /\ k_pc = "called"
    /\ k_args \in CleanupArgs
    /\ k_files \in CleanupFiles
    /\ k_log = <<>>
    /\ k_exit = None
    /\ ValidatorIdle
    /\ BruteIdle
    /\ MarkovIdle
    /\ CtorIdle
    /\ WordIdle
    /\ WriteIdle
    /\ OneIdle

\* run_cleanup, lines 260-271, clean_file lines 139-141: the input file does
\* not exist, the error is printed and 1 is returned
CleanFileNotFound ==
    /\ k_pc = "called"
    /\ k_files.input.isNone
    /\ k_log' = Append(k_log, "Error: Input file not found")
    /\ k_exit' = Some(1)
    /\ k_pc' = "returned"
    /\ UNCHANGED <<k_args, k_files>>
    /\ UNCHANGED <<validatorVars, bruteVars, markovVars, ctorVars>>
    /\ UNCHANGED <<wordVars, writeVars, oneVars>>

\* run_cleanup, lines 260-276, clean_file lines 143-189: the input file is
\* read, the output file and the errors file are written, the counts are
\* printed
CleanFile ==
    /\ k_pc = "called"
    /\ ~k_files.input.isNone
    /\ \E results \in {CleanResults(k_files.input.val, CleanupPolicy(k_args))} :
           k_files' = [k_files EXCEPT
                          !.output = Some(CleanOutput(k_files.input.val, results)),
                          !.errors = Some(CleanErrors(k_files.input.val, results))]
    /\ k_log' = k_log \o <<"read input", "write output", "write errors", "Cleaned">>
    /\ k_pc' = "cleaned"
    /\ UNCHANGED <<k_args, k_exit>>
    /\ UNCHANGED <<validatorVars, bruteVars, markovVars, ctorVars>>
    /\ UNCHANGED <<wordVars, writeVars, oneVars>>

\* run_cleanup, lines 277 and 289: no removees file was given, 0 is returned
CleanupReturns ==
    /\ k_pc = "cleaned"
    /\ ~k_args.removees
    /\ k_exit' = Some(0)
    /\ k_pc' = "returned"
    /\ UNCHANGED <<k_args, k_files, k_log>>
    /\ UNCHANGED <<validatorVars, bruteVars, markovVars, ctorVars>>
    /\ UNCHANGED <<wordVars, writeVars, oneVars>>

\* run_cleanup, lines 277-286, remove_domains lines 208-209: the removees
\* file does not exist, the error is printed and 1 is returned
RemoveesNotFound ==
    /\ k_pc = "cleaned"
    /\ k_args.removees
    /\ k_files.removees.isNone
    /\ k_log' = Append(k_log, "Error during removal: Removees file not found")
    /\ k_exit' = Some(1)
    /\ k_pc' = "returned"
    /\ UNCHANGED <<k_args, k_files>>
    /\ UNCHANGED <<validatorVars, bruteVars, markovVars, ctorVars>>
    /\ UNCHANGED <<wordVars, writeVars, oneVars>>

\* run_cleanup, lines 277-289, remove_domains lines 211-240: the removees
\* file and the cleaned output are read, the remainder is written, 0 is
\* returned
RemoveDomains ==
    /\ k_pc = "cleaned"
    /\ k_args.removees
    /\ ~k_files.removees.isNone
    /\ k_files' = [k_files EXCEPT
                      !.remove_output = Some(RemoveKept(k_files.output.val, k_files.removees.val))]
    /\ k_log' = k_log \o <<"read removees", "read output", "write remove_output", "Removed">>
    /\ k_exit' = Some(0)
    /\ k_pc' = "returned"
    /\ UNCHANGED k_args
    /\ UNCHANGED <<validatorVars, bruteVars, markovVars, ctorVars>>
    /\ UNCHANGED <<wordVars, writeVars, oneVars>>

CleanupNext ==
    CleanFileNotFound \/ CleanFile \/ CleanupReturns \/ RemoveesNotFound \/ RemoveDomains

CleanupSpec == CleanupInit /\ [][CleanupNext]_vars

----------------------------------------------------------------------------
(* Runs of the validator.                                                  *)

LongLabel(n) == [i \in 1..n |-> "a"]

\* the labels tried as a candidate's registrable name
NameLabels ==
    {<<"w", "w", "w">>, <<"a", "b", "c">>, <<"a", "b">>, <<"l", "r", "v">>,
     <<"a", "_", "b">>, <<"A", "b", "c">>, <<"x", "n", "-", "-", "a", "b">>,
     <<"x", "n", "-", "-", "a", "-", "-", "b">>, <<"a", "b", "-", "-", "c">>,
     <<"-", "a", "b">>, <<"a", "b", "-">>, <<"a", "a_ogonek", "b">>,
     <<"I_dot", "b", "c">>, LongLabel(MaxLabelLen), LongLabel(MaxLabelLen + 1), <<>>}

\* the labels tried in front of the name
SubLabels == {<<"w", "w", "w">>, <<"s", "u", "b">>}

\* the suffixes tried behind the name: three public suffixes, one of them a
\* government suffix, a two-label one, and a label that is no suffix
SuffixLabels ==
    {<< <<"l", "t">> >>, << <<"g", "o", "v">>, <<"l", "t">> >>, << <<"c", "o", "m">> >>,
     << <<"c", "o">>, <<"u", "k">> >>, << <<"z", "z">> >>}

\* what surrounds the host: nothing, a trailing dot, whitespace, a URL
Decorations ==
    {<< <<>>, <<>> >>, << <<>>, <<".">> >>, << <<" ">>, <<" ">> >>,
     << <<"h", "t", "t", "p", ":", "/", "/">>, <<>> >>,
     << <<"h", "t", "t", "p", ":", "/", "/">>, <<"/", "x">> >>,
     << <<"h", "t", "t", "p", ":", "/", "/">>, <<":", "8", "0">> >>,
     << <<"H", "T", "T", "P", ":", "/", "/">>, <<".", "/">> >>,
     << <<"h", "t", "t", "p", ":", "/", "/", "/">>, <<>> >>}

SubSequences == UNION {[1..n -> SubLabels] : n \in 0..MaxSub}

\* candidates that the grid above does not hold
ExtraInputs ==
    {<<>>, <<" ", " ">>, <<".", ".">>, <<"l", "t">>,
     <<"1", "1", ".", "2", ".", "0", ".", "8">>,
     <<"1", ".", "2", ".", "0", ".", "8", ".">>,
     <<"h", "t", "t", "p", ":", "/", "/", "1", ".", "2", ".", "0", ".", "8", ".", "/">>,
     <<"W", "W", "W", ".", "A", "b", "c", ".", "L", "T">>,
     <<"a", "b", "c", ".", ".", "l", "t">>,
     <<"s", "u", "b", ".", "s", "u", "b", ".", "m", "i", "n", "i", "s", "t", "e", "r", "i", "j", "a", ".",
       "l", "r", "v", ".", "l", "t">>,
     <<"s", "u", "b", ".", "m", "i", "n", "i", "s", "t", "e", "r", "i", "j", "a", ".",
       "l", "r", "v", ".", "l", "t">>,
     <<"a", "b", ".", "a", "b", "c", ".", "l", "r", "v", ".", "l", "t">>,
     <<"a", "b", "-", "-", "c", ".", "-", "a", "b", ".", "l", "r", "v", ".", "l", "t">>,
     <<"x", "n", "-", "-", "a", "b", ".", "a", "b", "c", ".", "l", "r", "v", ".", "l", "t">>}

\* None, the extra candidates, every host of the grid bare, and every host with
\* at most one subdomain label inside every decoration
RawInputs ==
    {None}
    \cup {Some(x) : x \in ExtraInputs}
    \cup {Some(Join(sub \o <<name>> \o suffix)) :
            sub \in SubSequences, name \in NameLabels, suffix \in SuffixLabels}
    \cup {Some(d[1] \o Join(sub \o <<name>> \o suffix) \o d[2]) :
            d \in Decorations, sub \in {<<>>} \cup {<<l>> : l \in SubLabels},
            name \in NameLabels, suffix \in SuffixLabels}

\* a candidate and the keyword arguments are chosen; process_domain is yet to run
ValidatorInit ==
    /\ v_pc = "fresh"
    /\ v_raw \in RawInputs
    /\ v_policy \in Policies
    /\ v_result = NotRun
    /\ v_again = NotRun
    /\ BruteIdle
    /\ MarkovIdle
    /\ CtorIdle
    /\ WordIdle
    /\ WriteIdle
    /\ OneIdle
    /\ CleanupIdle

\* process_domain(raw, **policy) runs and returns
ProcessDomain ==
    /\ v_pc = "fresh"
    /\ v_result' = process_domain(v_raw, v_policy)
    /\ v_pc' = "processed"
    /\ UNCHANGED <<v_raw, v_policy, v_again>>
    /\ UNCHANGED bruteVars
    /\ UNCHANGED markovVars
    /\ UNCHANGED ctorVars
    /\ UNCHANGED <<wordVars, writeVars, oneVars, cleanupVars>>

\* the accepted domain is given to process_domain again, as when clean_file
\* reads back a file it wrote
ReprocessAccepted ==
    /\ v_pc = "processed"
    /\ ~v_result.domain.isNone
    /\ v_again' = process_domain(Some(v_result.domain.val), v_policy)
    /\ v_pc' = "reprocessed"
    /\ UNCHANGED <<v_raw, v_policy, v_result>>
    /\ UNCHANGED bruteVars
    /\ UNCHANGED markovVars
    /\ UNCHANGED ctorVars
    /\ UNCHANGED <<wordVars, writeVars, oneVars, cleanupVars>>

ValidatorNext == ProcessDomain \/ ReprocessAccepted

ValidatorSpec == ValidatorInit /\ [][ValidatorNext]_vars

----------------------------------------------------------------------------
(* The validator's claims.  Labels are read off a result by position.      *)

\* i is the first position of a label of d
LabelStartsAt(d, i) == i \in 1..Len(d) /\ d[i] # "." /\ (i = 1 \/ d[i - 1] = ".")

\* the last position of the label of d that starts at i
LabelEnd(d, i) ==
    CHOOSE j \in i..Len(d) :
        /\ \A k \in i..j : d[k] # "."
        /\ (j = Len(d) \/ d[j + 1] = ".")

\* a label other than the last is shorter than 3 or longer than 63 characters
HasLengthViolation(d) ==
    \/ d # <<>> /\ d[1] = "."
    \/ \E i \in 1..(Len(d) - 1) : d[i] = "." /\ d[i + 1] = "."
    \/ \E i \in 1..Len(d) :
          /\ LabelStartsAt(d, i)
          /\ LabelEnd(d, i) < Len(d)
          /\ LabelEnd(d, i) - i + 1 \notin MinLabelLen..MaxLabelLen

\* a label starts or ends with a hyphen
HasBoundaryHyphen(d) ==
    \E i \in 1..Len(d) : LabelStartsAt(d, i) /\ (d[i] = "-" \/ d[LabelEnd(d, i)] = "-")

\* a doubled hyphen that is not the one of a leading "xn--"
HasStrayDoubledHyphen(d) ==
    \E i \in 1..Len(d) :
        /\ LabelStartsAt(d, i)
        /\ \E k \in i..(LabelEnd(d, i) - 1) :
              /\ d[k] = "-" /\ d[k + 1] = "-"
              /\ ~(k = i + 2 /\ d[i] = "x" /\ d[i + 1] = "n")

\* a doubled hyphen in a label that does not start with "xn--"
HasDoubledHyphenOutsideXn(d) ==
    \E i \in 1..Len(d) :
        /\ LabelStartsAt(d, i)
        /\ \E k \in i..(LabelEnd(d, i) - 1) : d[k] = "-" /\ d[k + 1] = "-"
        /\ ~(LabelEnd(d, i) - i + 1 >= 4 /\ SubSeq(d, i, i + 3) = <<"x", "n", "-", "-">>)

DnsChars == {"a", "b", "c", "d", "e", "f", "g", "h", "i", "j", "k", "l", "m", "n", "o", "p",
             "q", "r", "s", "t", "u", "v", "w", "x", "y", "z",
             "0", "1", "2", "3", "4", "5", "6", "7", "8", "9", "-"}

\* either a non-empty domain and no reason, or no domain and a non-empty reason
ExactlyOneOf(r) ==
    \/ ~r.domain.isNone /\ r.domain.val # <<>> /\ r.reason.isNone
    \/ r.domain.isNone /\ ~r.reason.isNone /\ r.reason.val # ""

LengthAndBoundaryReasons ==
    {"domain label too short (min 3 chars)", "label exceeds 63 characters",
     "hyphen at start of label", "hyphen at end of label"}

\* C1: a domain process_domain accepted is accepted unchanged when given to
\* process_domain again under the same policy.
C1_Idempotent ==
    v_pc = "reprocessed" => v_again = Accepted(v_result.domain.val)

\* C2: process_domain returns a non-empty domain and no reason, or no domain and
\* a non-empty reason; never both and never neither.
C2_MutuallyExclusive ==
    /\ v_pc \in {"processed", "reprocessed"} => ExactlyOneOf(v_result)
    /\ v_pc = "reprocessed" => ExactlyOneOf(v_again)

\* C2 witness: a candidate turned away by the length check, with its reason and no domain
C2_Witness ==
    /\ v_pc = "processed"
    /\ v_result.domain.isNone
    /\ v_result.reason = Some("label exceeds 63 characters")

\* C3: an accepted domain holds only a-z, 0-9, the hyphen and the dots between labels.
C3_OnlyDnsChars ==
    (v_pc \in {"processed", "reprocessed"} /\ ~v_result.domain.isNone) =>
        \A i \in 1..Len(v_result.domain.val) : v_result.domain.val[i] \in DnsChars \cup {"."}

\* C4 as stated: in an accepted domain every label but the last has 3 to 63
\* characters and no label starts or ends with a hyphen, and a candidate that
\* breaks one of these rules is rejected with one of the four reasons.
C4_LabelRulesFourReasons ==
    v_pc \in {"processed", "reprocessed"} =>
        /\ ~v_result.domain.isNone =>
              ~HasLengthViolation(v_result.domain.val) /\ ~HasBoundaryHyphen(v_result.domain.val)
        /\ LET candidate == Candidate(v_raw, v_policy)
           IN  (/\ ~candidate.domain.isNone
                /\ HasLengthViolation(candidate.domain.val) \/ HasBoundaryHyphen(candidate.domain.val))
               => (v_result.domain.isNone /\ ~v_result.reason.isNone
                   /\ v_result.reason.val \in LengthAndBoundaryReasons)

\* C4 amended: as C4, but the reason is 'consecutive hyphens' when the only
\* broken rule is a boundary hyphen and a label in front of it holds a doubled
\* hyphen outside "xn--".
C4_LabelRules ==
    v_pc \in {"processed", "reprocessed"} =>
        /\ ~v_result.domain.isNone =>
              ~HasLengthViolation(v_result.domain.val) /\ ~HasBoundaryHyphen(v_result.domain.val)
        /\ LET candidate == Candidate(v_raw, v_policy)
           IN  /\ (~candidate.domain.isNone /\ HasLengthViolation(candidate.domain.val))
                  => (v_result.domain.isNone /\ ~v_result.reason.isNone
                      /\ v_result.reason.val \in
                           {"domain label too short (min 3 chars)", "label exceeds 63 characters"})
               /\ (/\ ~candidate.domain.isNone
                   /\ ~HasLengthViolation(candidate.domain.val)
                   /\ HasBoundaryHyphen(candidate.domain.val))
                  => /\ v_result.domain.isNone /\ ~v_result.reason.isNone
                     /\ v_result.reason.val \in
                           {"hyphen at start of label", "hyphen at end of label",
                            "consecutive hyphens"}
                     /\ v_result.reason.val = "consecutive hyphens"
                           => HasDoubledHyphenOutsideXn(candidate.domain.val)

\* C4 witness: a candidate with a label of 64 characters reached the length
\* check and was rejected for it
C4_Witness ==
    /\ v_pc = "processed"
    /\ ~Candidate(v_raw, v_policy).domain.isNone
    /\ HasLengthViolation(Candidate(v_raw, v_policy).domain.val)
    /\ v_result.reason = Some("label exceeds 63 characters")

\* C5: in an accepted domain the only doubled hyphen of a label is the one of a
\* leading "xn--"; any other doubled hyphen is rejected.
C5_DoubledHyphenOnlyInPrefix ==
    (v_pc \in {"processed", "reprocessed"} /\ ~v_result.domain.isNone) =>
        ~HasStrayDoubledHyphen(v_result.domain.val)

----------------------------------------------------------------------------
(* The enumeration as the specification states it, by position.            *)

Range(f) == {f[i] : i \in DOMAIN f}

\* the alphabet of a configuration as declared: the base characters, then the hyphen
\* unless the mode is 'without'
DeclaredAlphabet(char_type, mode) ==
    IF mode = "without" THEN CHARACTER_SETS[char_type]
    ELSE CHARACTER_SETS[char_type] \o <<"-">>

\* no leading hyphen, no trailing hyphen, no doubled hyphen and, in mode 'only',
\* at least one hyphen
WellFormedName(s, mode) ==
    /\ Len(s) >= 1
    /\ s[1] # "-"
    /\ s[Len(s)] # "-"
    /\ \A i \in 1..(Len(s) - 1) : ~(s[i] = "-" /\ s[i + 1] = "-")
    /\ mode = "only" => \E i \in 1..Len(s) : s[i] = "-"

\* the number of well-formed names of a length, by enumeration
CountWellFormed(char_type, mode, L) ==
    Cardinality({s \in [1..L -> Range(DeclaredAlphabet(char_type, mode))] :
                    WellFormedName(s, mode)})

RECURSIVE TableOver(_)
\* the explicit table of CountWellFormed over a set of keys
TableOver(keys) ==
    IF keys = {} THEN <<>>
    ELSE LET k == CHOOSE x \in keys : TRUE
         IN  (k :> CountWellFormed(k[1], k[2], k[3])) @@ TableOver(keys \ {k})

WellFormedCount ==
    TableOver({k \in CharTypes \X HyphenModes \X (1..Max(MaxLen, MaxLenWide)) :
                  k[3] <= MaxLenFor(k[1])})

RECURSIVE WellFormedTotalFrom(_, _)
WellFormedTotalFrom(self, L) ==
    IF L > self.max_len THEN 0
    ELSE WellFormedCount[<<self.char_type, self.hyphen_mode, L>>]
         + WellFormedTotalFrom(self, L + 1)

\* the number of well-formed names of a configuration's length range
WellFormedTotal(self) == WellFormedTotalFrom(self, self.min_len)

\* position of a character in the declared alphabet
Rank(self, c) == IndexOf(DeclaredAlphabet(self.char_type, self.hyphen_mode), c)

\* s comes before t: shorter first, and at equal length the first differing
\* character decides by its position in the declared alphabet
ComesBefore(self, s, t) ==
    \/ Len(s) < Len(t)
    \/ /\ Len(s) = Len(t)
       /\ \E i \in 1..Len(s) :
            /\ \A j \in 1..(i - 1) : s[j] = t[j]
            /\ Rank(self, s[i]) < Rank(self, t[i])

\* the name in front of ".tld" in a yielded string
NameOf(self, domain) == SubSeq(domain, 1, Len(domain) - Len(self.tld) - 1)

\* floor(0.90 * sum of (n + 1) ** L over the length range)
RECURSIVE RawTotalFrom(_, _)
RawTotalFrom(self, L) ==
    IF L > self.max_len THEN 0
    ELSE Pow(Len(CHARACTER_SETS[self.char_type]) + 1, L) + RawTotalFrom(self, L + 1)

ScaledRawTotal(self) == (RawTotalFrom(self, self.min_len) * 9) \div 10

C7_ExactSequence ==
    /\ g_count > 0 =>
        /\ g_last = NameOf(brute, g_last) \o <<".">> \o brute.tld
        /\ Len(NameOf(brute, g_last)) \in brute.min_len..brute.max_len
        /\ Range(NameOf(brute, g_last)) \subseteq
               Range(DeclaredAlphabet(brute.char_type, brute.hyphen_mode))
        /\ WellFormedName(NameOf(brute, g_last), brute.hyphen_mode)
    /\ g_count > 1 => ComesBefore(brute, NameOf(brute, g_prev), NameOf(brute, g_last))
    /\ g_pc = "done" => g_count = WellFormedTotal(brute)
    /\ (g_pc = "done" /\ brute.char_type = "letters" /\ brute.hyphen_mode = "only"
           /\ brute.min_len = 2 /\ brute.max_len = 2) => g_count = 0
    /\ (brute.char_type = "numbers" /\ brute.hyphen_mode = "without"
           /\ brute.min_len = 1 /\ brute.max_len = 1 /\ g_count > 0)
          => g_last = <<Digits[g_count], ".", "l", "t">>

\* C7 witness: numbers/1..1/without has yielded its tenth string, 9.lt
C7_Witness ==
    /\ brute.char_type = "numbers" /\ brute.hyphen_mode = "without"
    /\ brute.min_len = 1 /\ brute.max_len = 1
    /\ g_pc = "done" /\ g_count = 10 /\ g_last = <<"9", ".", "l", "t">>

----------------------------------------------------------------------------
(* Claims about MarkovGenerator, checked under MarkovSpec.                 *)

\* the constraints on a sampled string: length in [min_len, max_len], no
\* hyphen at either end, no doubled hyphen
MeetsSamplingConstraints(self, text) ==
    /\ Len(text) >= self.min_len
    /\ Len(text) <= self.max_len
    /\ text[1] # "-"
    /\ text[Len(text)] # "-"
    /\ \A i \in 1..(Len(text) - 1) : ~(text[i] = "-" /\ text[i + 1] = "-")

\* C9: after any number of pulls from generate(), the strings yielded so far
\* are pairwise distinct, none of them is in training_set, and there are at
\* most count of them.
C9_YieldsDistinctNovelBounded ==
    m_pc # "idle" =>
        /\ \A i, j \in 1..Len(yielded) : i # j => yielded[i] # yielded[j]
        /\ \A i \in 1..Len(yielded) : yielded[i] \notin markov.training_set
        /\ Len(yielded) <= markov.count

\* two strings were yielded, after passes that discarded something, by a
\* generator whose sampler can return one of its training strings
C9_Witness ==
    /\ m_pc # "idle"
    /\ Len(yielded) = 2
    /\ attempts > 2
    /\ \E domain \in one_returns : ~domain.isNone /\ domain.val \in markov.training_set

\* C10: whatever the trained model and the random draws, _generate_one returns
\* None or a string of length min_len..max_len without a hyphen at either end
\* and without a doubled hyphen; so does every string generate() yields.
C10_SamplesWellFormed ==
    m_pc # "idle" =>
        /\ \A domain \in one_returns :
              domain.isNone \/ MeetsSamplingConstraints(markov, domain.val)
        /\ \A i \in 1..Len(yielded) : MeetsSamplingConstraints(markov, yielded[i])

\* a string was yielded by a generator whose walk can also end on a string of
\* the right length with a hyphen at an end or a doubled hyphen, and on one
\* that is too short
C10_Witness ==
    /\ m_pc # "idle"
    /\ Len(yielded) >= 1
    /\ \E result \in OneLoopResults(markov, OneStart(markov), {}) :
          /\ Len(result) >= markov.min_len /\ Len(result) <= markov.max_len
          /\ ~MeetsSamplingConstraints(markov, result)
    /\ \E result \in OneLoopResults(markov, OneStart(markov), {}) :
          Len(result) < markov.min_len

\* C11: generate() consumed to the end terminates: it calls _generate_one at
\* most count * 100 times, makes no further call once count strings have been
\* yielded, and returns normally, also when the budget runs out with fewer
\* than count strings.
C11_GenerateTerminates ==
    /\ [](attempts <= markov.count * 100)
    /\ [][Len(yielded) = markov.count => attempts' = attempts]_vars
    /\ <>(m_pc = "done")

\* generate() returned after count * 100 calls with at least one string
\* yielded, but fewer than count
C11_Witness ==
    /\ m_pc = "done"
    /\ attempts = markov.count * 100
    /\ Len(yielded) >= 1
    /\ Len(yielded) < markov.count

\* C12: when the trained model has no start state (empty corpus, or every
\* start state pruned), _generate_one returns None on every call and
\* generate() yields nothing and returns normally.
C12_NoStartStatesYieldsNothing ==
    (m_pc # "idle" /\ DOMAIN markov.start_states = {}) =>
        /\ one_returns = {None}
        /\ yielded = <<>>
        /\ generated = {}
        /\ attempts = markov.count * 100 => ENABLED GenerateReturns \/ m_pc = "done"

\* generate() returned with nothing yielded, on a model whose corpus had
\* usable lines and whose start states were all pruned
C12_Witness ==
    /\ m_pc = "done"
    /\ markov.training_set # {}
    /\ DOMAIN markov.start_states = {}
    /\ yielded = <<>>
    /\ attempts = markov.count * 100

----------------------------------------------------------------------------
(* Claims about construction and training, checked under ConstructSpec.    *)

\* the constructor call is MarkovGenerator(...) and got as far as its model storage
Training == c_args.cls = "MarkovGenerator" /\ c_pc \in {"train", "built"}

\* C13: whatever the corpus, the order and min_frequency, every key of the
\* transition table and every key of start_states is a string of exactly
\* order characters, while the corpus is read (before pruning) and after
\* pruning.
C13_KeysHaveLengthOrder ==
    Training =>
        \A key \in DOMAIN c_model.transitions \cup DOMAIN c_model.start_states :
            Len(key) = c_args.order

\* a model of order 2 was pruned: some windows went, others stayed
C13_Witness ==
    /\ Training
    /\ c_pc = "built"
    /\ c_args.order = 2
    /\ c_args.min_frequency = 2
    /\ DOMAIN c_model.transitions # {}
    /\ DOMAIN c_model.start_states # {}
    /\ \E key \in DOMAIN TrainLines(EmptyModel, c_args.input_file, 2).transitions :
          key \notin DOMAIN c_model.transitions

\* the corpus of the example: test, demo, test
ExampleCorpus == <<<<"t", "e", "s", "t">>, <<"d", "e", "m", "o">>, <<"t", "e", "s", "t">>>>

\* the normalized forms of the first n corpus lines that are order..63 characters long
UsableLines(corpus, order, n) ==
    {_normalize_input(corpus[i]) :
        i \in {k \in 1..n : /\ Len(_normalize_input(corpus[k])) >= order
                            /\ Len(_normalize_input(corpus[k])) <= 63}}

\* C14: training_set is exactly the set of distinct normalized corpus lines
\* whose normalized length is order..63: a repeated line adds one member, a
\* line outside the range none; test, demo, test with order 2 gives a set of
\* two members.
C14_TrainingSetIsUsableLines ==
    Training =>
        /\ c_model.training_set = UsableLines(c_args.input_file, c_args.order, c_line)
        /\ (c_pc = "built" /\ c_args.input_file = ExampleCorpus /\ c_args.order = 2) =>
              /\ Cardinality(c_model.training_set) = 2
              /\ c_model.training_set = {<<"t", "e", "s", "t">>, <<"d", "e", "m", "o">>}

\* training is over on a corpus with more lines than the training set has
\* members, one of them outside the length range and one a repetition
C14_Witness ==
    /\ Training
    /\ c_pc = "built"
    /\ c_model.training_set # {}
    /\ \E i \in 1..Len(c_args.input_file) :
          _normalize_input(c_args.input_file[i]) \notin c_model.training_set
    /\ \E i, j \in 1..Len(c_args.input_file) :
          /\ i # j
          /\ _normalize_input(c_args.input_file[i]) = _normalize_input(c_args.input_file[j])
          /\ _normalize_input(c_args.input_file[i]) \in c_model.training_set

\* the length range 1 <= min_len <= max_len <= 63
LengthRangeOk(a) == 1 <= a.min_len /\ a.min_len <= a.max_len /\ a.max_len <= 63

\* C15: invalid configuration is rejected at construction.
\* BruteForceGenerator raises ValueError unless char_type is numbers, letters
\* or alphanumeric, hyphen_mode is with, without or only and the length range
\* is 1 <= min_len <= max_len <= 63. MarkovGenerator raises ValueError when
\* order < 1, the length range is violated or count < 1, before any corpus
\* line is read, and FileNotFoundError when the file is missing. Whenever a
\* constructor raised, no object was produced.
C15_InvalidConfigurationRejected ==
    /\ (c_pc \in {"built", "raised"} /\ c_args.cls = "BruteForceGenerator") =>
          (c_raised = Some("ValueError")) <=>
              ~(/\ c_args.char_type \in {"numbers", "letters", "alphanumeric"}
                /\ c_args.hyphen_mode \in {"with", "without", "only"}
                /\ LengthRangeOk(c_args))
    /\ (c_pc \notin {"idle", "call"} /\ c_args.cls = "MarkovGenerator") =>
          /\ (c_args.order < 1 \/ ~LengthRangeOk(c_args) \/ c_args.count < 1) =>
                /\ c_raised = Some("ValueError")
                /\ c_line = 0
                /\ c_model = <<>>
          /\ (~(c_args.order < 1 \/ ~LengthRangeOk(c_args) \/ c_args.count < 1)
                /\ ~c_args.file_exists) =>
                /\ c_raised = Some("FileNotFoundError")
                /\ c_line = 0
    /\ c_raised # None => c_pc = "raised" /\ c_object = None
    /\ c_pc = "raised" => c_raised # None

\* a MarkovGenerator call with valid order and lengths, count 0 and a missing
\* file has raised ValueError
C15_Witness ==
    /\ c_pc = "raised"
    /\ c_args.cls = "MarkovGenerator"
    /\ c_args.order >= 1
    /\ LengthRangeOk(c_args)
    /\ c_args.count < 1
    /\ ~c_args.file_exists
    /\ c_raised = Some("ValueError")
    /\ c_object = None

----------------------------------------------------------------------------
(* The validator's suffix and subdomain policy, checked under ValidatorSpec. *)

\* process_domain has returned on a candidate that reached the subdomain
\* policy with the parts ext, a subdomain among them
SubdomainCase(ext) ==
    /\ v_pc = "processed"
    /\ v_result.reason \notin EarlyReasons
    /\ ~SuffixDisallowed(ext, v_policy)
    /\ ext.subdomain # <<>>

\* subdomain.name.suffix of the candidate
FullName(ext) == ext.subdomain \o <<".">> \o ext.domain \o <<".">> \o ext.suffix

\* the length and hyphen rules both pass on d
PassesLabelRules(d) == is_valid_domain_length(d).ok /\ is_valid_hyphen_rules(d).ok

\* the reasons with which the length and hyphen rules reject
LabelRuleReasons ==
    {Some("domain label too short (min 3 chars)"), Some("label exceeds 63 characters"),
     Some("hyphen at start of label"), Some("hyphen at end of label"),
     Some("consecutive hyphens")}

\* C16 as stated: under suffix lt with allow_subdomains false, a candidate
\* with a subdomain is accepted with the subdomain kept when its registrable
\* label is a government label, and is rejected with 'non-govt subdomain'
\* when its registrable label is any other.
C16_GovLabelKeepsSubdomain ==
    (v_pc = "processed" /\ v_result.reason \notin EarlyReasons) =>
        LET ext == Extracted(v_raw)
        IN  (SubdomainCase(ext) /\ ext.suffix = <<"l", "t">> /\ ~v_policy.allow_subdomains) =>
                IF ext.domain \in UseGovDomains(v_policy)
                THEN v_result = Accepted(FullName(ext))
                ELSE v_result = Rejected("non-govt subdomain")

\* C16, amended: under suffix lt with allow_subdomains false, a candidate
\* with a subdomain whose registrable label is a government label is never
\* rejected for its subdomain: it is accepted as subdomain.name.lt when that
\* string passes the length and hyphen rules, and rejected by those rules
\* otherwise. A candidate with any other registrable label is rejected with
\* 'non-govt subdomain', unless lt itself is in the government-suffix set,
\* which gives it the treatment of a government label.
C16_GovLabelKeepsValidSubdomain ==
    (v_pc = "processed" /\ v_result.reason \notin EarlyReasons) =>
        LET ext == Extracted(v_raw)
        IN  (SubdomainCase(ext) /\ ext.suffix = <<"l", "t">> /\ ~v_policy.allow_subdomains) =>
                IF \/ ext.domain \in UseGovDomains(v_policy)
                   \/ <<"l", "t">> \in UseGovSuffixes(v_policy)
                THEN IF PassesLabelRules(FullName(ext))
                     THEN v_result = Accepted(FullName(ext))
                     ELSE v_result.domain.isNone /\ v_result.reason \in LabelRuleReasons
                ELSE v_result = Rejected("non-govt subdomain")

\* sub.ministerija.lrv.lt was accepted unchanged with allow_subdomains false
C16_Witness ==
    /\ v_pc = "processed"
    /\ ~v_policy.allow_subdomains
    /\ v_raw = Some(<<"s", "u", "b", ".", "m", "i", "n", "i", "s", "t", "e", "r", "i", "j", "a", ".",
                      "l", "r", "v", ".", "l", "t">>)
    /\ SubdomainCase(Extracted(v_raw))
    /\ Extracted(v_raw).domain = <<"l", "r", "v">>
    /\ v_result = Accepted(v_raw.val)

\* the number of labels of the dotted string s, 0 for the empty string
LabelCount(s) == IF s = <<>> THEN 0 ELSE Cardinality({i \in 1..Len(s) : s[i] = "."}) + 1

\* C17: a candidate whose extracted public suffix is in the government-suffix
\* set (gov.lt for one) and that carries a subdomain is accepted with
\* allow_subdomains false, its subdomain kept in the result (here: whenever
\* the full name passes the length and hyphen rules).
C17_GovSuffixKeepsSubdomain ==
    (v_pc = "processed" /\ v_result.reason \notin EarlyReasons) =>
        LET ext == Extracted(v_raw)
        IN  (/\ SubdomainCase(ext)
             /\ ~v_policy.allow_subdomains
             /\ ext.suffix \in UseGovSuffixes(v_policy)
             /\ PassesLabelRules(FullName(ext))) =>
                v_result = Accepted(FullName(ext))

\* C18: the subdomain prefix kept for a government name is one label: no
\* accepted result has two or more labels in front of a government
\* registrable name.
C18_GovPrefixIsOneLabel ==
    (v_pc = "processed" /\ ~v_result.domain.isNone) =>
        LET ext == TldExtract(v_result.domain.val)
        IN  (\/ ext.domain \in UseGovDomains(v_policy)
             \/ ext.suffix \in UseGovSuffixes(v_policy)) =>
                LabelCount(ext.subdomain) <= 1

\* C19: with allow_subdomains set, a candidate with a subdomain and a
\* non-government registrable name is accepted and the result keeps the
\* subdomain (here: whenever the full name passes the length and hyphen rules).
C19_AllowedSubdomainIsKept ==
    (v_pc = "processed" /\ v_result.reason \notin EarlyReasons) =>
        LET ext == Extracted(v_raw)
        IN  (/\ SubdomainCase(ext)
             /\ v_policy.allow_subdomains
             /\ ext.domain \notin UseGovDomains(v_policy)
             /\ ext.suffix \notin UseGovSuffixes(v_policy)
             /\ PassesLabelRules(FullName(ext))) =>
                v_result = Accepted(FullName(ext))

\* C20: process_domain returns (None, 'disallowed tld') exactly when no
\* earlier step rejected the input, a target_tld is configured, the extracted
\* suffix differs from it and is not in the government-suffix set, and
\* allow_other_tlds is false; with allow_other_tlds true or target_tld unset
\* nothing is rejected with that reason.
C20_DisallowedTldExactly ==
    v_pc = "processed" =>
        /\ (v_result = Rejected("disallowed tld")) <=>
              /\ v_result.reason \notin EarlyReasons
              /\ v_policy.target_tld # <<>>
              /\ ~v_policy.allow_other_tlds
              /\ Extracted(v_raw).suffix # v_policy.target_tld
              /\ Extracted(v_raw).suffix \notin UseGovSuffixes(v_policy)
        /\ (v_policy.allow_other_tlds \/ v_policy.target_tld = <<>>) =>
              v_result.reason # Some("disallowed tld")

\* abc.gov.lt went through the suffix policy of target_tld lt on the strength
\* of the government-suffix set, where abc.com would not have
C20_Witness ==
    /\ v_pc = "processed"
    /\ v_policy.target_tld = <<"l", "t">>
    /\ ~v_policy.allow_other_tlds
    /\ v_raw = Some(<<"a", "b", "c", ".", "g", "o", "v", ".", "l", "t">>)
    /\ v_result = Accepted(v_raw.val)
    /\ process_domain(Some(<<"a", "b", "c", ".", "c", "o", "m">>), v_policy) = Rejected("disallowed tld")

----------------------------------------------------------------------------
(* Claims about WordTransformGenerator, checked under WordSpec.            *)

RECURSIVE AcceptedOfLines(_, _, _)
\* the accepted results of process_domain(transform_word(w), target_tld=tld,
\* allow_other_tlds=True, allow_subdomains=False) over the non-blank stripped
\* ones of the first n lines, in line order
AcceptedOfLines(self, lines, n) ==
    IF n = 0 THEN <<>>
    ELSE LET word == Strip(lines[n])
             checked == process_domain(
                            Some(transform_word(self, word)),
                            [target_tld |-> self.tld, allow_other_tlds |-> TRUE,
                             allow_subdomains |-> FALSE, gov_domains |-> {}, gov_suffixes |-> {}])
         IN  AcceptedOfLines(self, lines, n - 1)
                 \o (IF word # <<>> /\ ~checked.domain.isNone THEN <<checked.domain.val>> ELSE <<>>)

WordLabel(line) == clean_word(normalize_lithuanian_chars(Lower(Strip(line))))

\* a label of letters and digits only that is not the 'www' prefix the
\* validator strips: the length rule alone decides about it
PlainLabel(label) ==
    /\ \A i \in 1..Len(label) : IsAlnum(label[i])
    /\ label # <<"w", "w", "w">>

\* generate() read one more line and yielded label.tld for it
YieldedLabel(label) == w_yielded' = Append(w_yielded, label \o <<".">> \o w_self.tld)

-----------------------------------------------------------------------------
(* Claims about generate_to_file and write_batches, checked under          *)
(* WriteSpec.                                                              *)

\* C23: BruteForceGenerator.generate_to_file(path) completes without error,
\* writes every string of generate() to the file one per line in generation
\* order, and returns the number of strings written.
C23_GenerateToFileWritesAll ==
    f_pc = "done" /\ f_call.fn = "BruteForceGenerator.generate_to_file" =>
        /\ f_result.val.raised = ""
        /\ f_file = Some(JoinLines(GenerateAll(f_call.self)))
        /\ f_result.val.value = Len(GenerateAll(f_call.self))

\* the first n items of the iterable, one per line
LinesOfFirst(n) == JoinLines(SubSeq(f_call.iterable, 1, n))

\* C27: write_batches with batch_size >= 1 never holds more than batch_size
\* items in its buffer, writes the items of the iterable to the file one per
\* line in the order pulled whatever the batch_size, and returns the number
\* of items pulled.
C27_BoundedBufferOrderedLines ==
    f_call # <<>> /\ f_call.fn = "write_batches" /\ f_call.batch_size >= 1 =>
        /\ f_peak <= f_call.batch_size
        /\ Len(f_batch) <= f_call.batch_size
        /\ f_pc = "loop" => f_file = Some(LinesOfFirst(f_count - Len(f_batch)))
        /\ f_pc = "loop" => f_batch = SubSeq(f_call.iterable, f_count - Len(f_batch) + 1, f_count)
        /\ f_pc = "done" =>
               /\ f_file = Some(LinesOfFirst(Len(f_call.iterable)))
               /\ f_result = Some(Returned(Len(f_call.iterable)))

\* write_batches returned after its buffer was full once and was written, and
\* after it wrote a last batch that was not full
C27_Witness ==
    /\ f_pc = "done"
    /\ f_call.fn = "write_batches"
    /\ f_call.batch_size = 2
    /\ f_peak = 2
    /\ Len(f_call.iterable) = 3
    /\ Len(f_batch) = 1
    /\ f_call.iterable[1] # f_call.iterable[2]

-----------------------------------------------------------------------------
(* Claims about one call of _generate_one, checked under OneSpec.          *)

\* a pass of the while loop of _generate_one was made
OnePassMade == o_pc = "loop" /\ o_pc' = "loop" /\ o_locals' # o_locals

\* the pass drew '$' while the result was shorter than min_len: nothing but
\* the attempt counter changed
OneRetried ==
    /\ o_locals'.result = o_locals.result
    /\ o_locals'.state = o_locals.state
    /\ "$" \in WeightedChoices(markov.transitions[o_locals.state])
    /\ Len(o_locals.result) < markov.min_len

\* the pass appended one character and slid the window by one
OneAdvanced ==
    \E c \in WeightedChoices(markov.transitions[o_locals.state]) \ {"$"} :
        /\ o_locals'.result = o_locals.result \o <<c>>
        /\ o_locals'.state = Tail(o_locals.state) \o <<c>>
        /\ Len(o_locals'.state) = Len(o_locals.state)

\* C24: _generate_one runs its sampling loop at most 3 * max_len times and
\* then stops; a pass that draws '$' while the result is shorter than min_len
\* changes neither the result nor the state window, and every other pass that
\* does not stop the loop grows the result by exactly one character and
\* slides the window by one.
C24_LoopBoundedAndSteps ==
    [][OnePassMade =>
          /\ o_locals.attempts < 3 * markov.max_len
          /\ o_locals'.attempts = o_locals.attempts + 1
          /\ ~o_locals'.stopped => (OneRetried \/ OneAdvanced)
          /\ ~o_locals'.stopped => ~(OneRetried /\ OneAdvanced)]_vars

\* _generate_one left its loop at the ceiling of 3 * max_len passes, after
\* passes that drew '$' too early and passes that appended a character
C24_Witness ==
    /\ o_pc = "returned"
    /\ DOMAIN markov.start_states # {}
    /\ ~o_locals.stopped
    /\ o_locals.attempts = 3 * markov.max_len
    /\ Len(o_locals.result) > 0
    /\ Len(o_locals.result) < markov.min_len

\* the corpus lines _train processes, with their boundary markers: the
\* normalized lines of order..63 characters, repeated lines each time
ProcessedLines(corpus, order) ==
    LET kept == {k \in 1..Len(corpus) : /\ Len(_normalize_input(corpus[k])) >= order
                                        /\ Len(_normalize_input(corpus[k])) <= 63}
    IN  [k \in kept |-> [i \in 1..order |-> "^"] \o _normalize_input(corpus[k]) \o <<"$">>]

\* the places <<line, position>> where the window state is followed by next_char
Occurrences(lines, order, state, next_char) ==
    {<<k, i>> \in UNION {{k} \X (1..(Len(lines[k]) - order)) : k \in DOMAIN lines} :
        /\ SubSeq(lines[k], i, i + order - 1) = state
        /\ lines[k][i + order] = next_char}

\* the lines whose first window is state
StartOccurrences(lines, order, state) ==
    {k \in DOMAIN lines : SubSeq(lines[k], 1, order) = state}

\* C25: after training with min_frequency m, the model holds a transition
\* (state, next character) if and only if that pair occurred at least
\* max(m, 1) times over all processed corpus lines, repeated lines counted
\* each time, and holds a start state if and only if it was recorded at least
\* max(m, 1) times.
C25_PrunedModelIsFrequentPairs ==
    Training /\ c_pc = "built" =>
        LET lines == ProcessedLines(c_args.input_file, c_args.order)
            order == c_args.order
            least == Max(c_args.min_frequency, 1)
            held == {<<st, c>> \in UNION {{st} \X DOMAIN c_model.transitions[st] :
                                             st \in DOMAIN c_model.transitions} : TRUE}
            seen == {<<SubSeq(lines[k], i, i + order - 1), lines[k][i + order]>> :
                        <<k, i>> \in UNION {{k} \X (1..(Len(lines[k]) - order)) : k \in DOMAIN lines}}
        IN  /\ \A p \in held : Cardinality(Occurrences(lines, order, p[1], p[2])) >= least
            /\ \A p \in seen : Cardinality(Occurrences(lines, order, p[1], p[2])) >= least
                                   => p \in held
            /\ \A st \in DOMAIN c_model.start_states :
                   Cardinality(StartOccurrences(lines, order, st)) >= least
            /\ \A k \in DOMAIN lines :
                   Cardinality(StartOccurrences(lines, order, SubSeq(lines[k], 1, order))) >= least
                       => SubSeq(lines[k], 1, order) \in DOMAIN c_model.start_states

\* a model trained on a corpus with a repeated line was pruned with
\* min_frequency 2: a pair seen twice stayed, a pair seen once went
C25_Witness ==
    /\ Training
    /\ c_pc = "built"
    /\ c_args.min_frequency = 2
    /\ c_args.order = 1
    /\ c_args.input_file = ExampleCorpus
    /\ <<"t">> \in DOMAIN c_model.transitions
    /\ <<"d">> \notin DOMAIN c_model.transitions
    /\ <<"^">> \in DOMAIN c_model.start_states

\* the characters a-z, 0-9 and hyphen
IsDnsChar(c) == c \in AsciiLower \cup {"0", "1", "2", "3", "4", "5", "6", "7", "8", "9"} \cup {"-"}

\* the text is made of a-z, 0-9 and hyphen and has no hyphen at either end
IsDnsText(text) ==
    /\ \A i \in 1..Len(text) : IsDnsChar(text[i])
    /\ text # <<>> => text[1] # "-" /\ text[Len(text)] # "-"

\* C26: for every input line, _normalize_input returns a string that contains
\* only the characters a-z, 0-9 and hyphen and that neither starts nor ends
\* with a hyphen; at most one trailing suffix from the fixed list is removed.
C26_NormalizedIsDnsText ==
    Training /\ c_line > 0 =>
        LET line == c_args.input_file[c_line]
            text == _normalize_input(line)
            whole == Lower(Strip(line))
        IN  /\ IsDnsText(text)
            /\ \/ text = StripHyphens(SelectSeq(whole, KeepInCorpus))
               \/ \E k \in 1..Len(KnownTlds) :
                      /\ EndsWith(whole, KnownTlds[k])
                      /\ text = StripHyphens(SelectSeq(
                                    [i \in 1..(Len(whole) - Len(KnownTlds[k])) |-> whole[i]],
                                    KeepInCorpus))

-----------------------------------------------------------------------------
(* Claims about the cleanup command, checked under CleanupSpec.            *)

\* the reports of a file that does not exist
NotFoundReports ==
    {"Error: Input file not found", "Error during removal: Removees file not found"}

\* C28: in every run, a missing input file is detected before any processing
\* or output happens: in the cleanup command with a removees file, a missing
\* removees file is reported before clean_file reads the input or writes the
\* cleaned output and error files.
C28_NotFoundBeforeProcessing ==
    \A i \in 1..Len(k_log) :
        k_log[i] \in NotFoundReports =>
            /\ i = 1
            /\ k_files.output \in {None, Some(<<<<"o", "l", "d", ".", "l", "t">>>>)}
            /\ k_files.errors = None

-----------------------------------------------------------------------------
(* Claims about candidates with a scheme prefix, checked under             *)
(* ValidatorSpec.                                                          *)

\* the host of a URL that matched the scheme pattern: the netloc without the
\* user-info in front of the last "@" and without the port behind the ":"
UrlHost(s) ==
    LET netloc == UrlNetloc(s)
        ats == {i \in 1..Len(netloc) : netloc[i] = "@"}
        from == IF ats = {} THEN 1 ELSE (CHOOSE i \in ats : \A j \in ats : i >= j) + 1
        colons == {i \in from..Len(netloc) : netloc[i] = ":"}
        to == IF colons = {} THEN Len(netloc) ELSE (CHOOSE i \in colons : \A j \in colons : i <= j) - 1
    IN  [i \in 1..(to - from + 1) |-> netloc[from + i - 1]]

\* "scheme://host" of a URL that matched the scheme pattern
UrlOfHostOnly(s) == SubSeq(s, 1, SchemeLen(s) + 3) \o UrlHost(s)

\* C29: when the candidate carries a scheme prefix, process_domain continues
\* with the host portion only: the path, query, port and user-info of the URL
\* do not change the outcome, so 'http://example.lt:8080/x' and
\* 'http://example.lt' give the same result.
C29_OnlyHostOfUrlCounts ==
    v_pc # "fresh" /\ ~v_raw.isNone /\ SchemeLen(RStripDots(Strip(v_raw.val))) > 0 =>
        v_result = process_domain(Some(UrlOfHostOnly(RStripDots(Strip(v_raw.val)))), v_policy)

-----------------------------------------------------------------------------
(* Claims about what generate() yields and the trained model, checked      *)
(* under MarkovSpec.                                                       *)

\* the string, prefixed with order boundary markers, moves only along
\* transitions of the table: each window of order characters is a key, and
\* the character after it is one the table holds for that window
FollowsModel(self, domain) ==
    LET padded == [i \in 1..self.order |-> "^"] \o domain
    IN  \A i \in 1..Len(domain) :
            LET window == SubSeq(padded, i, i + self.order - 1)
            IN  /\ window \in DOMAIN self.transitions
                /\ domain[i] \in DOMAIN self.transitions[window]
                /\ self.transitions[window][domain[i]] >= Max(self.min_frequency, 1)

\* C30: every string yielded by generate() follows the trained model:
\* prefixed with order boundary markers '^', each window of order characters
\* followed by the next character of the string is a transition present in
\* the pruned transition table, and the string contains neither '^' nor '$'.
C30_YieldedFollowsModel ==
    m_pc # "idle" =>
        \A k \in 1..Len(yielded) :
            /\ FollowsModel(markov, yielded[k])
            /\ \A i \in 1..Len(yielded[k]) : yielded[k][i] \notin {"^", "$"}

\* generate() yielded a string of three characters from a model of order 2
\* that was pruned
C30_Witness ==
    /\ m_pc # "idle"
    /\ markov.order = 2
    /\ \E k \in 1..Len(yielded) : Len(yielded[k]) = 3

====
